---------------------------- MODULE Spec2Model ----------------------------
(***************************************************************************)
(* Smoothed-Particle-Hydrodynamics: the uniform-grid neighbour search      *)
(* (GridNeighborhood2D), the particle system data and the two solver       *)
(* pipelines (SphSolver2D, VSphSolver2D), their constructors, and the      *)
(* frames they write (CsvWriter) and that are read back (CsvReader).       *)
(*                                                                         *)
(* Numbers.  Positions live on an integer lattice; a vector is a pair      *)
(* <<x, y>>.  Lengths are lattice units, time is counted in time steps     *)
(* (_timeStepSizeInSeconds = 1), and real-valued quotients are rounded to  *)
(* the lattice.  sqrt is the integer square root.  Nothing below depends   *)
(* on more of the arithmetic than that.                                    *)
(*                                                                         *)
(* Parallel loops.  A "#pragma omp parallel for" loop is a set of loop     *)
(* iterations that may run in any order and interleave at the granularity  *)
(* of their shared-memory accesses; the loop ends with a barrier.  With    *)
(* TEST defined the loops of GridNeighborhood2D run sequentially.          *)
(***************************************************************************)
EXTENDS Integers, Sequences, FiniteSets, TLC

---------------------------------------------------------------------------
(* Bounds of the model *)

\* largest number of points handed to one build()
MaxPoints == 3

\* Neighborhood::MAX_NEIGHBORS, the per-particle neighbour cap; 64 in
\* GridNeighborhood2D.h, kept small here so that the cap is reached
MAX_NEIGHBORS == 2

\* threads of an OpenMP team (one thread when the loop is sequential)
NumThreads == 2

\* Capacity of the per-particle arrays of the grid (MAX_PARTICLES2D, 75*75
\* in Constants.h); kept above the number of points of the model
MAX_PARTICLES2D == 4

---------------------------------------------------------------------------
(* Program constants *)

\* Constants.h: EPS, the squared-distance threshold below which a pair is
\* skipped.  On the lattice the only squared distance below it is 0.
EPS == 1

\* nullptr
NULL == -1

\* memory that no read has looked at yet
UNREAD == -2

---------------------------------------------------------------------------
(* Vector and integer helpers *)

Max(a, b) == IF a >= b THEN a ELSE b

Min(a, b) == IF a <= b THEN a ELSE b

\* conversion of a real quotient to int: truncation toward zero
TruncDiv(a, b) == IF a >= 0 THEN a \div b ELSE -((-a) \div b)

\* Eigen squaredNorm of a difference
Dist2(p, q) == (p[1] - q[1]) * (p[1] - q[1]) + (p[2] - q[2]) * (p[2] - q[2])

\* sqrt
RECURSIVE SqrtBetween(_, _, _)
\* bisection; the midpoint is drawn from a singleton, so it is a value
SqrtBetween(n, lo, hi) ==
    IF lo = hi THEN lo
    ELSE CHOOSE k \in {IF mid * mid <= n THEN SqrtBetween(n, mid, hi)
                       ELSE SqrtBetween(n, lo, mid - 1) :
                          mid \in {(lo + hi + 1) \div 2}} : TRUE

\* the k with k * k <= n < (k + 1) * (k + 1)
ISqrt(n) == SqrtBetween(n, 0, IF n < 46340 THEN n ELSE 46340)

---------------------------------------------------------------------------
VARIABLES
    \* build configuration: TEST defined (loops of the grid sequential)
    TEST,
    \* GridNeighborhood2D
    _width, _height, _cellSize, _numCells,
    _grid,              \* cell index -> head of the cell's list (or NULL)
    _sortedNeighbors,   \* particle index -> next pointer of its Neighbor node
    _gridIndices,       \* particle index -> clamped cell coordinates
    _neighborhoods,     \* particle index -> Neighborhood
    \* one call of build(points)
    points,             \* the argument: 0..n-1 -> position
    bpc,                \* "constructed", "ready", "insert", "scan", "built";
                        \* "stopped", "overwritten" after a store past the end
    ins,                \* insert loop: iteration -> "todo", "read", "done"
    scanned,            \* scan loop: iteration -> candidates visited, in order
    beyond,             \* what the memory past the end of _grid holds
    fault,              \* errors seen: out-of-range reads and writes, null
                        \* dereferences, file operations that failed
    \* the solver: SphSolver2D or VSphSolver2D
    kind,               \* "base", "visco" ("none": the grid on its own)
    ctor,               \* the constructor called: "count" (int, string) or
                        \* "fileName" (string, also the default constructor)
    requested,          \* the particle count handed to the constructor
    _particleSystemData, \* the shared_ptr: "nullptr" or the class it points to
    _fileName,
    \* SphParticleSystemData2D / VSphParticleSystemData2D
    numberOfParticles,
    _positions, _velocities, _forces, _densities, _pressures,
    _lastPositions, _projectedPositions, _densityVariations, _pressureVariations,
    \* one call of update()
    pc,                 \* "new", "idle", or the stage update() is in
    step,               \* the substep counter i of VSphSolver2D::update
    done,               \* iterations of the running loop that have finished
    updates,            \* calls of update() that have returned
    file,               \* the characters of the output file
    \* CsvWriter _csv
    ss,                 \* the characters of the string stream
    valueCount,
    \* the environment
    destination,        \* "writable" or "unwritable": whether the output file
                        \* can be opened for writing
    places,             \* the ten decimal places of the coordinates, which
                        \* the lattice leaves out
    \* one call of forEachNearbyPoint(origin, callback) with a callback that
    \* adds the distance it is called with to one variable
    callOrigin,         \* the argument origin, NULL when no call is running
    cbpc,               \* loop iteration -> "todo", "read", "done"
    sum,                \* the variable the callback accumulates into
    reg,                \* iteration -> the value of sum it has read
    calls,              \* the (j, distance) the callback was called with, in
                        \* the order the calls began
    \* history
    domain,             \* the width and height the caller of setGridResolution
                        \* passed, before their conversion to int
    added,              \* the positions handed to addParticle, in order
    log,                \* the stages of the current update(), in order of entry
    frames              \* the positions handed to each writeToFile(), in order

gridCore == <<TEST, domain, _width, _height, _cellSize, _numCells, _grid,
              _sortedNeighbors, _gridIndices, _neighborhoods,
              points, bpc, ins, scanned, beyond>>

gridVars == <<gridCore, fault>>

dataVars == <<numberOfParticles, _positions, _velocities, _forces, _densities,
              _pressures, _lastPositions, _projectedPositions,
              _densityVariations, _pressureVariations>>

ctlVars == <<kind, _fileName, pc, step, done, updates, file, added, log>>

ctorVars == <<ctor, requested, _particleSystemData>>

csvVars == <<ss, valueCount, frames, destination, places>>

eachVars == <<callOrigin, cbpc, sum, reg, calls>>

solverVars == <<dataVars, ctlVars, ctorVars, csvVars, eachVars>>

vars == <<gridVars, solverVars>>

\* number of points of the current build
NumPoints == Cardinality(DOMAIN points)

Particles == 0 .. NumPoints - 1

---------------------------------------------------------------------------
(* #pragma omp parallel for: the iterations 0..n-1 of a loop are split into  *)
(* contiguous chunks, one per thread of the team (the static schedule); a    *)
(* thread runs its chunk in order, the threads run concurrently.             *)

\* the thread that runs iteration i of a loop of n iterations shared by t threads
ThreadOf(i, n, t) ==
    LET q == n \div t
        r == n % t
    IN  IF i < r * (q + 1) THEN i \div (q + 1) ELSE r + ((i - r * (q + 1)) \div q)

\* iteration i may run: the earlier iterations of its thread are in finished
MayRun(i, n, t, finished) ==
    \A j \in 0 .. i - 1 : ThreadOf(j, n, t) = ThreadOf(i, n, t) => j \in finished

\* the team of the loops of GridNeighborhood2D (#ifndef TEST)
GridThreads == IF TEST THEN 1 ELSE NumThreads

---------------------------------------------------------------------------
(* GridNeighborhood2D.h: struct Neighborhood *)

Neighborhood ==
    [neighbors    |-> [k \in 0 .. MAX_NEIGHBORS - 1 |-> NULL],
     distances    |-> [k \in 0 .. MAX_NEIGHBORS - 1 |-> 0],
     numNeighbors |-> 0]

(* GridNeighborhood2D::GridNeighborhood2D() *)
GridNeighborhood2D ==
    /\ domain = <<>>
    /\ _width = 100
    /\ _height = 100
    /\ _cellSize = 1
    /\ _numCells = 100
    /\ _grid = <<>>
    /\ _gridIndices = <<>>
    /\ _sortedNeighbors = [i \in 0 .. MAX_PARTICLES2D - 1 |-> NULL]
    /\ _neighborhoods = [i \in 0 .. MAX_PARTICLES2D - 1 |-> Neighborhood]

\* lengths are counted in lattice units, PerUnit of which make 1.0
PerUnit == 2

\* a double converted to int: its whole part (here in lattice units)
ToInt(x) == TruncDiv(x, PerUnit) * PerUnit

(* GridNeighborhood2D::setGridResolution(int width, int height, double       *)
(* kernelRadius): the caller's width and height are converted to int         *)
setGridResolution(width, height, kernelRadius) ==
    /\ domain' = <<width, height>>
    /\ _cellSize' = kernelRadius
    /\ _width' = TruncDiv(ToInt(width), kernelRadius)
    /\ _height' = TruncDiv(ToInt(height), kernelRadius)
    /\ _numCells' = TruncDiv(ToInt(width), kernelRadius) * TruncDiv(ToInt(height), kernelRadius)
    /\ _grid' = [c \in 0 .. TruncDiv(ToInt(width), kernelRadius)
                              * TruncDiv(ToInt(height), kernelRadius) - 1 |-> NULL]
    /\ _gridIndices' = [i \in 0 .. MAX_PARTICLES2D - 1 |-> <<0, 0>>]

---------------------------------------------------------------------------
(* GridNeighborhood2D::build, the insert loop *)

\* std::max(1, std::min(dim - 2, ind))
ClampIndex(ind, dim) == Max(1, Min(dim - 2, ind))

\* the clamped cell coordinates of a point
CellOf(p) == <<ClampIndex(TruncDiv(p[1], _cellSize), _width),
               ClampIndex(TruncDiv(p[2], _cellSize), _height)>>

\* xind + yind * _width
CellIndex(c) == c[1] + c[2] * _width


\* lines 68-76: the first half of one iteration reads the shared cell head
\* into the node's own next pointer ...  The node is _sortedNeighbors[i]:
\* for i past the end of the vector the store is undefined, the process is
\* stopped or memory that is not the grid's is overwritten, and the model
\* does not follow the build further.
InsertRead(i) ==
    /\ bpc = "insert"
    /\ ins[i] = "todo"
    /\ MayRun(i, NumPoints, GridThreads, {j \in Particles : ins[j] = "done"})
    /\ IF i \in DOMAIN _sortedNeighbors
       THEN /\ _sortedNeighbors' =
                   [_sortedNeighbors EXCEPT ![i] = _grid[CellIndex(CellOf(points[i]))]]
            /\ ins' = [ins EXCEPT ![i] = "read"]
            /\ UNCHANGED <<bpc, fault>>
       ELSE /\ fault' = fault \cup {"particle arrays indexed past the end"}
            /\ bpc' \in {"stopped", "overwritten"}
            /\ UNCHANGED <<_sortedNeighbors, ins>>
    /\ UNCHANGED <<TEST, domain, _width, _height, _cellSize, _numCells, _grid,
                   _gridIndices, _neighborhoods, points, scanned, beyond>>
    /\ UNCHANGED solverVars

\* ... and the second half stores the node into the cell head and records
\* the cell coordinates.  The barrier at the end of the loop opens the scan.
InsertWrite(i) ==
    /\ bpc = "insert"
    /\ ins[i] = "read"
    /\ _grid' = [_grid EXCEPT ![CellIndex(CellOf(points[i]))] = i]
    /\ _gridIndices' = [_gridIndices EXCEPT ![i] = CellOf(points[i])]
    /\ ins' = [ins EXCEPT ![i] = "done"]
    /\ bpc' = IF \A j \in Particles \ {i} : ins[j] = "done" THEN "scan" ELSE "insert"
    /\ UNCHANGED <<TEST, domain, _width, _height, _cellSize, _numCells,
                   _sortedNeighbors, _neighborhoods, points, scanned, beyond, fault>>
    /\ UNCHANGED solverVars

---------------------------------------------------------------------------
(* GridNeighborhood2D::build, the scan loop *)

\* the scan from the column of the particle on: ii = gridIndex(0) ..
\* gridIndex(0)+2
ScanCellsAhead(i) ==
    [k \in 1 .. 9 |->
        (_gridIndices[i][1] + ((k - 1) \div 3))
      + (_gridIndices[i][2] * _width + (((k - 1) % 3) - 1) * _width)]

\* the scan of the three cells of the column of the particle, nine times
\* over instead of the three columns
ScanCellsOwnColumn(i) ==
    [k \in 1 .. 9 |->
        _gridIndices[i][1]
      + (_gridIndices[i][2] * _width + (((k - 1) % 3) - 1) * _width)]

\* the nine cell indices ii + jj visited for particle i, in loop order:
\* ii = gridIndex(0)-1 .. gridIndex(0)+1 outside, jj = gridIndex(1)-_width ..
\* gridIndex(1)+_width in steps of _width inside
ScanCells(i) ==
    [k \in 1 .. 9 |->
        (_gridIndices[i][1] - 1 + ((k - 1) \div 3))
      + (_gridIndices[i][2] * _width + (((k - 1) % 3) - 1) * _width)]

\* the cell indices of the scan that lie outside the cell-head array
OutOfRange(i) == {ScanCells(i)[k] : k \in 1 .. 9} \ DOMAIN _grid

\* _grid[ii + jj]; a read outside the array returns what the memory there
\* holds (mem): some pointer, the same for every read during one build
HeadAt(idx, mem) == IF idx \in DOMAIN _grid THEN _grid[idx] ELSE mem

\* for (pgrid = head; pgrid != NULL; pgrid = pgrid->next): the nodes visited
RECURSIVE Chain(_, _)
Chain(head, fuel) ==
    IF head = NULL \/ fuel = 0
    THEN <<>>
    ELSE <<head>> \o Chain(_sortedNeighbors[head], fuel - 1)

\* all candidates of particle i in the order the three nested loops visit them
RECURSIVE CandidatesFrom(_, _, _)
CandidatesFrom(i, k, mem) ==
    IF k > 9
    THEN <<>>
    ELSE Chain(HeadAt(ScanCells(i)[k], mem), MAX_PARTICLES2D)
             \o CandidatesFrom(i, k + 1, mem)

\* the distance test without its lower bound
RejectedTooFarOnly(r2) == r2 > _cellSize * _cellSize

\* the distance test without its upper bound
RejectedTooCloseOnly(r2) == r2 < EPS

\* line 98: if (r2 < EPS || r2 > _cellSize * _cellSize) continue;
Rejected(r2) == r2 < EPS \/ r2 > _cellSize * _cellSize

\* the capacity test off by one
BelowCapInclusive(nbh) == nbh.numNeighbors <= MAX_NEIGHBORS

\* line 102: if (numNeighbors < Neighborhood::MAX_NEIGHBORS)
BelowCap(nbh) == nbh.numNeighbors < MAX_NEIGHBORS

\* lines 104-106: store the pair at index numNeighbors and count it.  A store
\* at an index outside the two vectors is a write past their end: over.
Store(st, q, r) ==
    IF st.nbh.numNeighbors \in DOMAIN st.nbh.neighbors
    THEN [st EXCEPT !.nbh.neighbors[st.nbh.numNeighbors] = q,
                    !.nbh.distances[st.nbh.numNeighbors] = r,
                    !.nbh.numNeighbors = @ + 1]
    ELSE [st EXCEPT !.nbh.numNeighbors = @ + 1, !.over = TRUE]

\* lines 93-108: the body of the innermost loop, over the candidates in order
RECURSIVE Collect(_, _, _)
Collect(st, cands, i) ==
    IF cands = <<>>
    THEN st
    ELSE LET q  == Head(cands)
             r2 == Dist2(points[q], points[i])
         IN  IF Rejected(r2)
             THEN Collect(st, Tail(cands), i)
             ELSE IF BelowCap(st.nbh)
                  THEN Collect(Store(st, q, ISqrt(r2)), Tail(cands), i)
                  ELSE Collect(st, Tail(cands), i)

\* line 87: numNeighbors = 0; the arrays keep their earlier contents
Reset(nbh) == [nbh EXCEPT !.numNeighbors = 0]

\* The memory past the end of _grid is not the grid's: the first read of it
\* during a build finds NULL or a pointer to some node, later reads the same.
Beyond(i) ==
    IF OutOfRange(i) = {} THEN {beyond}
    ELSE IF beyond = UNREAD THEN {NULL} \cup Particles
    ELSE {beyond}

\* lines 82-111: one iteration of the scan loop
Scan(i) ==
    /\ bpc = "scan"
    /\ i \in Particles
    /\ i \notin DOMAIN scanned
    /\ MayRun(i, NumPoints, GridThreads, DOMAIN scanned)
    /\ \E mem \in Beyond(i) :
         LET cands == CandidatesFrom(i, 1, mem)
             st    == Collect([nbh |-> Reset(_neighborhoods[i]), over |-> FALSE],
                              cands, i)
         IN  /\ _neighborhoods' = [_neighborhoods EXCEPT ![i] = st.nbh]
             /\ scanned' = (i :> cands) @@ scanned
             /\ beyond' = mem
             /\ fault' = fault
                    \cup (IF OutOfRange(i) # {} THEN {"grid read out of range"} ELSE {})
                    \cup (IF st.over THEN {"neighbors written past the end"} ELSE {})
    /\ bpc' = IF Particles \ {i} \subseteq DOMAIN scanned THEN "built" ELSE "scan"
    /\ UNCHANGED <<TEST, domain, _width, _height, _cellSize, _numCells, _grid,
                   _sortedNeighbors, _gridIndices, points, ins>>
    /\ UNCHANGED solverVars

\* lines 57-62 and the entry of build(points): the cell heads are cleared
\* (every iteration of that loop writes its own cell only)
BuildBegin(pts) ==
    /\ points' = pts
    /\ beyond' = UNREAD
    /\ _grid' = [c \in DOMAIN _grid |-> NULL]
    /\ ins' = [i \in DOMAIN pts |-> "todo"]
    /\ scanned' = <<>>
    /\ bpc' = IF DOMAIN pts = {} THEN "built" ELSE "insert"
    /\ UNCHANGED <<TEST, domain, _width, _height, _cellSize, _numCells,
                   _sortedNeighbors, _gridIndices, _neighborhoods, fault>>

---------------------------------------------------------------------------
(* The neighbour grid on its own: construct, setGridResolution, build *)

\* widths and heights handed to setGridResolution (the kernel radius is 2):
\* a grid of 4 x 3 cells, and for SpecAnyGrid also one of 2 x 3 cells
GridWidths == {8}

AnyGridWidths == {5, 8}

GridHeights == {6}

GridRadii == {2}

\* positions handed to build: inside the 4 x 3 grid at (2,2), (3,2) (one
\* cell), (4,2) (the next cell, at distance 2 and 1 of the former), (3,4)
\* (outermost ring), and (-1,2) (outside the domain)
PointSet == {<<2, 2>>, <<3, 2>>, <<4, 2>>, <<3, 4>>, <<-1, 2>>}

\* four points of which the first has the other three within the kernel
\* radius: more than MAX_NEIGHBORS
Crowd == [i \in 0 .. 3 |-> <<<<3, 2>>, <<2, 2>>, <<4, 2>>, <<3, 4>>>>[i + 1]]

PointArrays == UNION {[0 .. n - 1 -> PointSet] : n \in 0 .. MaxPoints} \cup {Crowd}

\* SphParticleSystemData2D::SphParticleSystemData2D(): no particles
SphParticleSystemData2D ==
    /\ numberOfParticles = 0
    /\ _positions = <<>>
    /\ _velocities = <<>>
    /\ _forces = <<>>
    /\ _densities = <<>>
    /\ _pressures = <<>>
    /\ _lastPositions = <<>>
    /\ _projectedPositions = <<>>
    /\ _densityVariations = <<>>
    /\ _pressureVariations = <<>>

\* CsvWriter::CsvWriter(): firstRow = true, seperator = ";", columnNum = -1
\* (none of the three is changed by the solvers), valueCount = 0
CsvWriter ==
    /\ ss = <<>>
    /\ valueCount = 0

\* no forEachNearbyPoint is running and none has run
NoCall ==
    /\ callOrigin = NULL
    /\ cbpc = <<>>
    /\ sum = 0
    /\ reg = <<>>
    /\ calls = <<>>

\* no update() is running and none has run
Idle(state) ==
    /\ pc = state
    /\ step = 0
    /\ done = {}
    /\ updates = 0
    /\ added = <<>>
    /\ log = <<>>
    /\ frames = <<>>
    /\ CsvWriter
    /\ NoCall

InitGrid ==
    /\ TEST \in BOOLEAN
    /\ GridNeighborhood2D
    /\ kind = "none"
    /\ ctor = "none"
    /\ requested = 0
    /\ _particleSystemData = "nullptr"
    /\ _fileName = ""
    /\ file = <<>>
    /\ destination = "writable"
    /\ places = [k \in 1 .. 10 |-> 0]
    /\ SphParticleSystemData2D
    /\ Idle("idle")
    /\ points = <<>>
    /\ bpc = "constructed"
    /\ ins = <<>>
    /\ scanned = <<>>
    /\ beyond = UNREAD
    /\ fault = {}

SetGridResolutionOf(widths, heights, radii) ==
    /\ bpc = "constructed"
    /\ \E w \in widths, h \in heights, r \in radii :
          setGridResolution(w, h, r)
    /\ bpc' = "ready"
    /\ UNCHANGED <<TEST, _sortedNeighbors, _neighborhoods, points, ins, scanned,
                   beyond, fault>>
    /\ UNCHANGED solverVars

SetGridResolutionTo(widths) == SetGridResolutionOf(widths, GridHeights, GridRadii)

SetGridResolution == SetGridResolutionTo(GridWidths)

SetAnyGridResolution == SetGridResolutionTo(AnyGridWidths)

\* a domain of 6.0 x 7.5 or of 7.5 x 7.5 and a kernel radius of 1.5
SetDomainResolution == SetGridResolutionOf({12, 15}, {15}, {3})

Build ==
    /\ bpc = "ready"
    /\ \E pts \in PointArrays : BuildBegin(pts)
    /\ UNCHANGED solverVars

NextGrid ==
    \/ SetGridResolution
    \/ Build
    \/ \E i \in Particles : InsertRead(i)
    \/ \E i \in Particles : InsertWrite(i)
    \/ \E i \in Particles : Scan(i)

SpecGrid == InitGrid /\ [][NextGrid]_vars


NextAnyGrid ==
    \/ SetAnyGridResolution
    \/ Build
    \/ \E i \in Particles : InsertRead(i)
    \/ \E i \in Particles : InsertWrite(i)
    \/ \E i \in Particles : Scan(i)

\* as SpecGrid, for every grid setGridResolution produces, also one with
\* fewer than three columns
SpecAnyGrid == InitGrid /\ [][NextAnyGrid]_vars

NextDomain ==
    \/ SetDomainResolution
    \/ Build
    \/ \E i \in Particles : InsertRead(i)
    \/ \E i \in Particles : InsertWrite(i)
    \/ \E i \in Particles : Scan(i)

\* as SpecGrid, for a domain and a kernel radius that are not whole numbers
SpecDomain == InitGrid /\ [][NextDomain]_vars

---------------------------------------------------------------------------
(* Properties of the neighbour grid *)

\* the neighbours recorded for particle p, in the order recorded
Recorded(p) ==
    [k \in 1 .. Min(_neighborhoods[p].numNeighbors, MAX_NEIGHBORS) |->
        [index    |-> _neighborhoods[p].neighbors[k - 1],
         distance |-> _neighborhoods[p].distances[k - 1]]]

RecordedSet(p) == {Recorded(p)[k].index : k \in DOMAIN Recorded(p)}

\* q is within the kernel radius of p and not (nearly) coincident with it
InRange(p, q) ==
    /\ Dist2(points[p], points[q]) >= EPS
    /\ Dist2(points[p], points[q]) <= _cellSize * _cellSize

\* the cell the point lies in, before clamping
TrueCell(pt) == <<pt[1] \div _cellSize, pt[2] \div _cellSize>>

\* the true cell is an interior cell: not in the outermost ring, not outside
Interior(pt) ==
    /\ TrueCell(pt)[1] \in 1 .. _width - 2
    /\ TrueCell(pt)[2] \in 1 .. _height - 2

\* the particles of the list that starts at the head of cell c
InCell(c) == Chain(_grid[c], MAX_PARTICLES2D)

\* how often q occurs in the sequence s
Count(s, q) == Cardinality({k \in DOMAIN s : s[k] = q})

\* C3: after build, every neighbour q recorded for a particle p lies within
\* the kernel radius (the cell size) of p, and the distance recorded with q
\* is the distance between the two points.
C3_NoFalsePositives ==
    \A p \in DOMAIN scanned : \A k \in DOMAIN Recorded(p) :
        LET q == Recorded(p)[k].index
            d == Recorded(p)[k].distance
        IN  /\ q \in Particles
            /\ Dist2(points[p], points[q]) <= _cellSize * _cellSize
            /\ d * d <= Dist2(points[p], points[q])
            /\ (d + 1) * (d + 1) > Dist2(points[p], points[q])

\* a build has finished in which a particle has a neighbour recorded and
\* another particle of its own cell lies beyond the kernel radius
C3_Witness ==
    /\ bpc = "built"
    /\ \E p, q \in Particles :
          /\ RecordedSet(p) # {}
          /\ CellOf(points[p]) = CellOf(points[q])
          /\ Dist2(points[p], points[q]) > _cellSize * _cellSize

\* C4 (as claimed): for a point set small enough that the cap cannot bind,
\* after build the neighbours recorded for a particle whose true cell is an
\* interior cell are exactly the other particles within the kernel radius.
C4_EqualsBruteForce ==
    (bpc = "built" /\ NumPoints <= MAX_NEIGHBORS + 1) =>
        \A p \in Particles :
            Interior(points[p]) =>
                RecordedSet(p) = {q \in Particles \ {p} : InRange(p, q)}

\* the candidates of the scan of p that pass the distance test, in scan order
Qualifying(p) == SelectSeq(scanned[p], LAMBDA q : InRange(p, q))

\* some iteration of the running loop of build() can take its next step
CanStep ==
    \/ \E i \in Particles : ins[i] = "read"
    \/ \E i \in Particles :
          /\ bpc = "insert" /\ ins[i] = "todo"
          /\ MayRun(i, NumPoints, GridThreads, {j \in Particles : ins[j] = "done"})
    \/ \E i \in Particles \ DOMAIN scanned :
          bpc = "scan" /\ MayRun(i, NumPoints, GridThreads, DOMAIN scanned)

\* C5: no particle ever has more than MAX_NEIGHBORS recorded neighbours,
\* nothing is written past the end of the neighbour and distance arrays, a
\* build that has begun can always go on, and what is recorded for a scanned
\* particle are the first MAX_NEIGHBORS qualifying candidates in scan order.
C5_NeighborCap ==
    /\ \A i \in DOMAIN _neighborhoods :
          _neighborhoods[i].numNeighbors \in 0 .. MAX_NEIGHBORS
    /\ "neighbors written past the end" \notin fault
    /\ bpc \in {"insert", "scan"} => CanStep
    /\ \A p \in DOMAIN scanned :
          [k \in DOMAIN Recorded(p) |-> Recorded(p)[k].index]
            = SubSeq(Qualifying(p), 1, Min(MAX_NEIGHBORS, Len(Qualifying(p))))

\* a build has finished in which more candidates qualified for some particle
\* than the cap admits
C5_Witness ==
    /\ bpc = "built"
    /\ \E p \in Particles :
          /\ Len(Qualifying(p)) > MAX_NEIGHBORS
          /\ _neighborhoods[p].numNeighbors = MAX_NEIGHBORS

\* C6 (as claimed): the cell coordinates of every particle are clamped to
\* 1 .. _width-2 by 1 .. _height-2, and every cell index the scan of a
\* particle reads lies inside the cell-head array.
C6_ScanInsideGrid ==
    \A i \in DOMAIN scanned :
        /\ _gridIndices[i][1] \in 1 .. _width - 2
        /\ _gridIndices[i][2] \in 1 .. _height - 2
        /\ \A k \in 1 .. 9 : ScanCells(i)[k] \in 0 .. _numCells - 1

\* C7 (as claimed): once the insert loop has ended, every particle is
\* reachable from exactly one cell head, the one of its clamped cell, and
\* occurs once in that list.
C7_NoLostInsert ==
    bpc \in {"scan", "built"} =>
        \A i \in Particles :
            /\ {c \in DOMAIN _grid : Count(InCell(c), i) > 0}
                 = {CellIndex(CellOf(points[i]))}
            /\ Count(InCell(CellIndex(CellOf(points[i]))), i) = 1

---------------------------------------------------------------------------
(* The solvers: constants of Constants.h and of the class declarations.     *)
(* Magnitudes are those of the lattice: the kernels and the material        *)
(* constants are scaled so that densities, pressures and forces are small   *)
(* integers.                                                                *)

\* Constants.h: G2D(0.0, -9.8), in lattice units
G2D == <<0, -10>>

\* Constants.h: REST_DENSITY = 300.0, in the density unit of Poly6
REST_DENSITY == 30

\* Constants.h: ELASTIC_REST_DENSITY = 45.0
ELASTIC_REST_DENSITY == 45

\* Constants.h: GAS_CONSTANT = 2000.0, in the pressure unit of the lattice
GAS_CONSTANT == 2

\* SphParticleSystemData2D.h: _viscosityConstant = 200.0, scaled likewise
_viscosityConstant == 2

\* VSphSolver2D.h: _solverSteps = 10
_solverSteps == 10

\* SphSolver2D.h: _windowWidth = 800, _windowHeight = 600
_windowWidth == 800

_windowHeight == 600

\* SphSolver2D.h: _timeStepSizeInSeconds; one time step is the unit of time
_timeStepSizeInSeconds == 1

\* SphParticleSystemData2D.h: _particleRadius = 16.0;
\* VSphParticleSystemData2D(): _particleRadius = 0.03, one lattice unit
_particleRadius == IF kind = "visco" THEN 1 ELSE 16

\* SphParticleSystemData2D.h: _kernelRadius = 16.0;
\* VSphParticleSystemData2D(): _kernelRadius = 6.0 * _particleRadius
_kernelRadius == IF kind = "visco" THEN 6 * _particleRadius ELSE 16

\* SphParticleSystemData2D.h: _kernelRadiusSquared = _kernelRadius * _kernelRadius
_kernelRadiusSquared == 16 * 16

\* SphParticleSystemData2D.h: _mass = 2.5; VSphParticleSystemData2D(): _mass = 1.0
_mass == IF kind = "visco" THEN 1 ELSE 2

\* SphSolver2D.h: _viewWidth = 1.5 * 800; VSphSolver2D(int, string): 12.5,
\* here four kernel radii
_viewWidth == IF kind = "visco" THEN 24 ELSE (3 * _windowWidth) \div 2

\* SphSolver2D.h: _viewHeight = 1.5 * 600;
\* VSphSolver2D(int, string): _windowHeight * _viewWidth / _windowWidth
_viewHeight ==
    IF kind = "visco" THEN (_windowHeight * _viewWidth) \div _windowWidth
    ELSE (3 * _windowHeight) \div 2

\* _boundaryDumping as a fraction: SphSolver2D(int, string) sets 1.0,
\* VSphSolver2D(int, string) sets 0.5
_boundaryDumping == IF kind = "visco" THEN <<1, 2>> ELSE <<1, 1>>

\* the four half-planes (nx, ny, offset) pushed by the constructors
_boundaries ==
    << <<1, 0, 0>>, <<0, 1, 0>>, <<-1, 0, -_viewWidth>>, <<0, -1, -_viewHeight>> >>

---------------------------------------------------------------------------
(* Eigen::Vector2d and std::vector *)

Add(a, b) == <<a[1] + b[1], a[2] + b[2]>>

Sub(a, b) == <<a[1] - b[1], a[2] - b[2]>>

Scale(k, a) == <<k * a[1], k * a[2]>>

\* a vector divided by a scalar, rounded to the lattice
DivVec(a, d) == <<TruncDiv(a[1], d), TruncDiv(a[2], d)>>

Dot(a, b) == a[1] * b[1] + a[2] * b[2]

\* Eigen norm()
Norm(a) == ISqrt(Dot(a, a))

RECURSIVE SumSeq(_)
SumSeq(s) == IF s = <<>> THEN 0 ELSE Head(s) + SumSeq(Tail(s))

RECURSIVE SumVec(_)
SumVec(s) == IF s = <<>> THEN <<0, 0>> ELSE Add(Head(s), SumVec(Tail(s)))

\* a std::vector is a function on 0 .. size-1
Size(v) == Cardinality(DOMAIN v)

\* insertion at the front instead of the back
PushFront(v, x) == [k \in 0 .. Size(v) |-> IF k = 0 THEN x ELSE v[k - 1]]

\* std::vector::push_back
PushBack(v, x) == [k \in 0 .. Size(v) |-> IF k < Size(v) THEN v[k] ELSE x]

\* the loop range 0 .. numberOfParticles - 1
Bodies == 0 .. numberOfParticles - 1

---------------------------------------------------------------------------
(* SphKernels.cpp, scaled to the lattice *)

\* SphPoly6Kernel::operator(): (4 / (pi h^8)) x^3, for x = h^2 - r^2 <= h^2
Poly6(x) == ((x \div 32) * (x \div 32) * (x \div 32)) \div 256

\* SphSpikyKernel::gradientAt: (-10 / (pi h^5)) x^3, for x = h - r <= h
SpikyGradientAt(x) == -((x * x * x) \div 64)

\* SphViscosityKernel::laplacianAt: (40 / (pi h^5)) x
ViscosityLaplacianAt(x) == x \div 4

---------------------------------------------------------------------------
(* SphParticleSystemData2D *)

\* SphParticleSystemData2D::addParticle
SphAddParticle(position) ==
    /\ _positions' = PushBack(_positions, position)
    /\ _velocities' = PushBack(_velocities, <<0, 0>>)
    /\ _forces' = PushBack(_forces, <<0, 0>>)
    /\ _densities' = PushBack(_densities, 0)
    /\ _pressures' = PushBack(_pressures, 0)
    /\ numberOfParticles' = numberOfParticles + 1

\* VSphParticleSystemData2D::addParticle
VSphAddParticle(position) ==
    /\ SphAddParticle(position)
    /\ _projectedPositions' = PushBack(_projectedPositions, <<0, 0>>)
    /\ _densityVariations' = PushBack(_densityVariations, 0)
    /\ _pressureVariations' = PushBack(_pressureVariations, 0)
    /\ _lastPositions' = PushBack(_lastPositions, position)

\* the inner loop skipping the pair i = j, as the loop of computeForces does
RECURSIVE DensityOfOthersFrom(_, _)
DensityOfOthersFrom(i, j) ==
    IF j >= numberOfParticles
    THEN 0
    ELSE LET distanceSquared == Dist2(_positions[j], _positions[i])
         IN  (IF j # i /\ distanceSquared < _kernelRadiusSquared
              THEN _mass * Poly6(_kernelRadiusSquared - distanceSquared)
              ELSE 0) + DensityOfOthersFrom(i, j + 1)

\* SphParticleSystemData2D::computeDensityPressure, the inner loop from j on
RECURSIVE DensityFrom(_, _)
DensityFrom(i, j) ==
    IF j >= numberOfParticles
    THEN 0
    ELSE LET distanceSquared == Dist2(_positions[j], _positions[i])
         IN  (IF distanceSquared < _kernelRadiusSquared
              THEN _mass * Poly6(_kernelRadiusSquared - distanceSquared)
              ELSE 0) + DensityFrom(i, j + 1)

\* the density computed by scattering: iteration i adds what particle i
\* contributes to the density of every particle
SphComputeDensityPressureScattered(i) ==
    /\ _densities' = [k \in DOMAIN _densities |->
           (IF k = i THEN 0 ELSE _densities[k])
             + (IF Dist2(_positions[k], _positions[i]) < _kernelRadiusSquared
                THEN _mass * Poly6(_kernelRadiusSquared
                                     - Dist2(_positions[k], _positions[i]))
                ELSE 0)]
    /\ _pressures' = [_pressures EXCEPT
                         ![i] = GAS_CONSTANT * (DensityFrom(i, 0) - REST_DENSITY)]
    /\ UNCHANGED <<numberOfParticles, _positions, _velocities, _forces,
                   _lastPositions, _projectedPositions, _densityVariations,
                   _pressureVariations>>

\* SphParticleSystemData2D::computeDensityPressure, iteration i
SphComputeDensityPressure(i) ==
    /\ _densities' = [_densities EXCEPT ![i] = DensityFrom(i, 0)]
    /\ _pressures' = [_pressures EXCEPT
                         ![i] = GAS_CONSTANT * (DensityFrom(i, 0) - REST_DENSITY)]
    /\ UNCHANGED <<numberOfParticles, _positions, _velocities, _forces,
                   _lastPositions, _projectedPositions, _densityVariations,
                   _pressureVariations>>

---------------------------------------------------------------------------
(* SphSolver2D *)

\* Eigen normalized(): the zero vector stays zero
Normalized(a, length) == IF length = 0 THEN <<0, 0>> ELSE DivVec(a, length)

\* SphSolver2D::computeForces: the pressure and the viscosity contribution of
\* particle j to particle i (none when j = i or j is not within the radius)
PressureForce(i, j) ==
    LET resultingVector == Sub(_positions[j], _positions[i])
        distance        == Norm(resultingVector)
    IN  IF i = j \/ ~(distance < _kernelRadius) THEN <<0, 0>>
        ELSE Normalized(
               Scale(-(TruncDiv(_mass * (_pressures[i] + _pressures[j]),
                                2 * _densities[j])
                          * SpikyGradientAt(_kernelRadius - distance)),
                     resultingVector),
               distance)

ViscosityForce(i, j) ==
    LET resultingVector == Sub(_positions[j], _positions[i])
        distance        == Norm(resultingVector)
    IN  IF i = j \/ ~(distance < _kernelRadius) THEN <<0, 0>>
        ELSE Scale(ViscosityLaplacianAt(_kernelRadius - distance),
                   DivVec(Scale(_viscosityConstant * _mass,
                                Sub(_velocities[j], _velocities[i])),
                          _densities[j]))

\* SphSolver2D::computeForces: what the inner loop adds to fpress and to
\* fvisc for every j, and fgrav, of particle i
ForceTerms(i) ==
    [fpress |-> [j \in 0 .. numberOfParticles - 1 |-> PressureForce(i, j)],
     fvisc  |-> [j \in 0 .. numberOfParticles - 1 |-> ViscosityForce(i, j)],
     fgrav  |-> DivVec(Scale(_mass, G2D), _densities[i])]

\* SphSolver2D::computeForces: fpress + fvisc + fgrav of particle i
Force(i) ==
    LET terms  == ForceTerms(i)
        fpress == SumVec([j \in 1 .. numberOfParticles |-> terms.fpress[j - 1]])
        fvisc  == SumVec([j \in 1 .. numberOfParticles |-> terms.fvisc[j - 1]])
    IN  Add(Add(fpress, fvisc), terms.fgrav)

\* SphSolver2D::computeForces, iteration i of the (sequential) outer loop
computeForces(i) ==
        /\ _forces' = [_forces EXCEPT ![i] = Force(i)]
        /\ UNCHANGED <<numberOfParticles, _positions, _velocities, _densities,
                       _pressures, _lastPositions, _projectedPositions,
                       _densityVariations, _pressureVariations>>

\* SphSolver2D::integrate: velocities[i] += dt * forces[i] / densities[i]
Velocity(i) ==
    Add(_velocities[i], Scale(_timeStepSizeInSeconds, DivVec(_forces[i], _densities[i])))

\* SphSolver2D::integrate, iteration i
SphIntegrate(i) ==
    LET v == Velocity(i)
    IN  /\ _velocities' = [_velocities EXCEPT ![i] = v]
        /\ _positions' = [_positions EXCEPT
                             ![i] = Add(@, Scale(_timeStepSizeInSeconds, v))]
        /\ UNCHANGED <<numberOfParticles, _forces, _densities, _pressures,
                       _lastPositions, _projectedPositions, _densityVariations,
                       _pressureVariations>>

\* velocities[i] *= _boundaryDumping
Damp(v) == DivVec(Scale(_boundaryDumping[1], v), _boundaryDumping[2])

\* the signed distance of a position to the half-plane b
SignedDistance(p, b) == p[1] * b[1] + p[2] * b[2] - b[3]

\* SphSolver2D::enforceBoundary: the loop over the boundaries from the k-th
\* on, for a particle at p with velocity v (w: the velocity after the k-th)
RECURSIVE Bounce(_, _, _)
Bounce(v, p, k) ==
    IF k > Len(_boundaries)
    THEN v
    ELSE CHOOSE r \in {Bounce(w, p, k + 1) :
             w \in {LET b == _boundaries[k]
                        d == Max(0, SignedDistance(p, b))
                    IN  IF d < _particleRadius
                        THEN Damp(Add(v, DivVec(Scale(_particleRadius - d, <<b[1], b[2]>>),
                                                _timeStepSizeInSeconds)))
                        ELSE v}} : TRUE

\* SphSolver2D::enforceBoundary, iteration i
enforceBoundary(i) ==
    /\ _velocities' = [_velocities EXCEPT ![i] = Bounce(@, _positions[i], 1)]
    /\ UNCHANGED <<numberOfParticles, _positions, _forces, _densities, _pressures,
                   _lastPositions, _projectedPositions, _densityVariations,
                   _pressureVariations>>

---------------------------------------------------------------------------
(* Text.  A string is the sequence of its characters.  A double that is    *)
(* written or read is a decimal: a sign, a whole part and ten decimal      *)
(* places (what std::fixed with setprecision(10) prints of it).            *)

DigitChars == <<"0", "1", "2", "3", "4", "5", "6", "7", "8", "9">>

\* a coordinate of the lattice as a double
ToDouble(x) ==
    [sign |-> IF x < 0 THEN -1 ELSE 1,
     whole |-> IF x < 0 THEN -x ELSE x,
     frac |-> places]

\* the decimal digits of a natural number
RECURSIVE Digits(_)
Digits(n) ==
    IF n < 10 THEN <<DigitChars[n + 1]>>
    ELSE Digits(n \div 10) \o <<DigitChars[(n % 10) + 1]>>

\* SphSolver2D::writeToFile lines 93-106: x << std::fixed
\* << std::setprecision(10) << value; x.str()
Fixed10(d) ==
    (IF d.sign < 0 THEN <<"-">> ELSE <<>>)
        \o Digits(d.whole) \o <<".">> \o [k \in 1 .. 10 |-> DigitChars[d.frac[k] + 1]]

\* line 108: std::string s = x_str + " " + y_str
FieldOf(position) == Fixed10(position[1]) \o <<" ">> \o Fixed10(position[2])

Has(str, c) == \E k \in DOMAIN str : str[k] = c

RECURSIVE DoubleQuotes(_)
DoubleQuotes(str) ==
    IF str = <<>> THEN <<>>
    ELSE (IF Head(str) = "\"" THEN <<"\"", "\"">> ELSE <<Head(str)>>)
             \o DoubleQuotes(Tail(str))

\* CsvWriter::add(std::string), lines 100-113: quotation marks are doubled,
\* and a string with one, or with the separator, is put in quotation marks
Escape(str) ==
    IF Has(str, "\"") THEN <<"\"">> \o DoubleQuotes(str) \o <<"\"">>
    ELSE IF Has(str, ";") THEN <<"\"">> \o str \o <<"\"">>
    ELSE str

\* CsvWriter::add<T>, lines 125-137, with columnNum = -1: the separator goes
\* before every value but the first counted, and the value is counted
add(w, str) ==
    [ss         |-> (IF w.valueCount > 0 THEN w.ss \o <<";">> ELSE w.ss) \o Escape(str),
     valueCount |-> w.valueCount + 1]

\* SphSolver2D::writeToFile lines 91-110: _csv << s for every particle from
\* the i-th on (positions is a sequence here)
RECURSIVE AddAll(_, _)
AddAll(w, positions) ==
    IF positions = <<>> THEN w
    ELSE AddAll(add(w, FieldOf(Head(positions))), Tail(positions))

\* std::string::substr(pos, len) for pos <= size(); len is a size_t, so a
\* negative length is a very large one
substr(str, pos, len) ==
    SubSeq(str, pos + 1, IF len < 0 THEN Len(str) ELSE Min(Len(str), pos + len))

\* CsvWriter::writeToFile(filename, true), lines 231-261: what the file holds
\* afterwards, for a file holding content, the stream holding str, and the
\* output stream opening or not
CsvWriter_writeToFile(content, str, isOpen) ==
    LET appendNewLine == content # <<>> /\ content[Len(content)] # "\n"
    IN  IF ~isOpen THEN content
        ELSE IF appendNewLine
             THEN content \o <<"\n">> \o substr(str, 1, Len(str) - 2)
             ELSE content \o str

\* SphSolver2D::writeToFile: the positions are added to _csv, _csv is
\* appended to the file, and resetContent() empties the stream (and leaves
\* valueCount as it is)
SphSolver2D_writeToFile(positions, isOpen) ==
    LET w == AddAll([ss |-> ss, valueCount |-> valueCount], positions)
    IN  /\ file' = CsvWriter_writeToFile(file, w.ss, isOpen)
        /\ ss' = <<>>
        /\ valueCount' = w.valueCount
        /\ frames' = Append(frames, positions)

\* the positions of the particle system as a sequence of pairs of doubles
PositionsAsDoubles ==
    [k \in 1 .. Size(_positions) |->
        <<ToDouble(_positions[k - 1][1]), ToDouble(_positions[k - 1][2])>>]

---------------------------------------------------------------------------
(* CsvReader.h *)

\* std::getline(stream, item, delim) until it fails: the pieces between the
\* delimiters; a piece that is empty and is the last one is not read
RECURSIVE Pieces(_, _, _)
Pieces(str, delim, item) ==
    IF str = <<>> THEN (IF item = <<>> THEN <<>> ELSE <<item>>)
    ELSE IF Head(str) = delim THEN <<item>> \o Pieces(Tail(str), delim, <<>>)
    ELSE Pieces(Tail(str), delim, Append(item, Head(str)))

\* split(s, delim)
split(str, delim) == Pieces(str, delim, <<>>)

\* the rows CSVRange iterates over: CSVIterator::operator++ reads a line
\* with std::getline until that fails
CSVRange(content) == Pieces(content, "\n", <<>>)

\* CSVRow::readNextRow and operator[]: the cells between the ';' of a line;
\* a line without ';' is one cell
RECURSIVE Cells(_, _)
Cells(line, cell) ==
    IF line = <<>> THEN <<cell>>
    ELSE IF Head(line) = ";" THEN <<cell>> \o Cells(Tail(line), <<>>)
    ELSE Cells(Tail(line), Append(cell, Head(line)))

readNextRow(line) == Cells(line, <<>>)

DigitValue(c) == (CHOOSE k \in 1 .. 10 : DigitChars[k] = c) - 1

IsDigit(c) == \E k \in 1 .. 10 : DigitChars[k] = c

\* the longest prefix of digits
RECURSIVE DigitRun(_)
DigitRun(str) ==
    IF str = <<>> \/ ~IsDigit(Head(str)) THEN <<>>
    ELSE <<Head(str)>> \o DigitRun(Tail(str))

RECURSIVE NumberOf(_, _)
NumberOf(digits, acc) ==
    IF digits = <<>> THEN acc
    ELSE NumberOf(Tail(digits), 10 * acc + DigitValue(Head(digits)))

\* atof: an optional sign, digits, and after a '.' the decimal places, as
\* many as the text has (ten are kept, missing ones are zero)
atof(str) ==
    LET negative == str # <<>> /\ Head(str) = "-"
        body     == IF negative THEN Tail(str) ELSE str
        whole    == DigitRun(body)
        rest     == SubSeq(body, Len(whole) + 1, Len(body))
        decimals == IF rest # <<>> /\ Head(rest) = "." THEN DigitRun(Tail(rest))
                    ELSE <<>>
    IN  [sign  |-> IF negative THEN -1 ELSE 1,
         whole |-> NumberOf(whole, 0),
         frac  |-> [k \in 1 .. 10 |->
                       IF k <= Len(decimals) THEN DigitValue(decimals[k]) ELSE 0]]

\* get2DVector(str)
get2DVector(str) == <<atof(split(str, " ")[1]), atof(split(str, " ")[2])>>

---------------------------------------------------------------------------
(* VSphParticleSystemData2D and VSphSolver2D.  The weight a = 1 - r / h of   *)
(* a neighbour at distance r is carried as the integer h - r; the kernel     *)
(* factors and the stiffnesses are scaled to the lattice.                    *)

\* GridNeighborhood2D::forEachNearbyPoint(origin, callback): the (index,
\* distance) pairs the callback is called with, in order
forEachNearbyPoint(origin) ==
    [k \in 1 .. _neighborhoods[origin].numNeighbors |->
        [j        |-> _neighborhoods[origin].neighbors[k - 1],
         distance |-> _neighborhoods[origin].distances[k - 1]]]

\* h - r
Weight(distance) == _kernelRadius - distance

Density(i) ==
    SumSeq([k \in DOMAIN forEachNearbyPoint(i) |->
        LET a == Weight(forEachNearbyPoint(i)[k].distance)
        IN  _mass * a * a * a])

DensityVariation(i) ==
    SumSeq([k \in DOMAIN forEachNearbyPoint(i) |->
        LET a == Weight(forEachNearbyPoint(i)[k].distance)
        IN  (_mass * a * a * a * a) \div _kernelRadius])

\* VSphParticleSystemData2D::computeDensityPressure, iteration i
\* (_stiffness = 0.08, _stiffnessAtProximity = 0.1)
VSphComputeDensityPressure(i) ==
    /\ _densities' = [_densities EXCEPT ![i] = Density(i)]
    /\ _densityVariations' = [_densityVariations EXCEPT ![i] = DensityVariation(i)]
    /\ _pressures' = [_pressures EXCEPT
           ![i] = TruncDiv(2 * (Density(i) - _mass * ELASTIC_REST_DENSITY), 25)]
    /\ _pressureVariations' = [_pressureVariations EXCEPT
           ![i] = TruncDiv(DensityVariation(i), 10)]
    /\ UNCHANGED <<numberOfParticles, _positions, _velocities, _forces,
                   _lastPositions, _projectedPositions>>

\* VSphSolver2D::applyExternalForces, iteration i
applyExternalForces(i) ==
    /\ _velocities' = [_velocities EXCEPT
                          ![i] = Add(@, Scale(_timeStepSizeInSeconds, G2D))]
    /\ UNCHANGED <<numberOfParticles, _positions, _forces, _densities, _pressures,
                   _lastPositions, _projectedPositions, _densityVariations,
                   _pressureVariations>>

\* VSphSolver2D::integrate, iteration i
VSphIntegrate(i) ==
    /\ _lastPositions' = [_lastPositions EXCEPT ![i] = _positions[i]]
    /\ _positions' = [_positions EXCEPT
                         ![i] = Add(@, Scale(_timeStepSizeInSeconds, _velocities[i]))]
    /\ UNCHANGED <<numberOfParticles, _velocities, _forces, _densities, _pressures,
                   _projectedPositions, _densityVariations, _pressureVariations>>

\* VSphSolver2D::project: what one call of the callback adds to the
\* projected position of particle i (relaxation, surface tension with
\* _surfaceTension = 0.0001, linear and quadratic viscosity 0.25 and 0.5)
Displacement(i, j, r) ==
    LET dx == Sub(_positions[j], _positions[i])
        a  == Weight(r)
        d  == TruncDiv(((_pressureVariations[i] + _pressureVariations[j]) * a * a * a
                          + (_pressures[i] + _pressures[j]) * a * a * _kernelRadius)
                         * _timeStepSizeInSeconds * _timeStepSizeInSeconds,
                       8 * _kernelRadius * _kernelRadius * _kernelRadius)
        u  == Dot(Sub(_velocities[i], _velocities[j]), dx)
        I  == IF u > 0
              THEN TruncDiv(_timeStepSizeInSeconds * a
                               * (TruncDiv(u, r) + 2 * TruncDiv(u, r) * TruncDiv(u, r)),
                            8 * _kernelRadius)
              ELSE 0
    IN  Add(Add(Scale(-1, DivVec(Scale(d, dx), r * _mass)),
                DivVec(Scale(a * a, dx), 10000 * _kernelRadius * _kernelRadius)),
            Scale(-I * _timeStepSizeInSeconds, dx))

\* VSphSolver2D::project: what the callback adds for the k-th neighbour of i
DisplacementOf(i, k) ==
    Displacement(i, forEachNearbyPoint(i)[k].j, forEachNearbyPoint(i)[k].distance)

\* project storing into _positions, which the other iterations read
projectInPlace(i) ==
    /\ _positions' = [_positions EXCEPT ![i] =
           Add(@, SumVec([k \in DOMAIN forEachNearbyPoint(i) |-> DisplacementOf(i, k)]))]
    /\ _projectedPositions' = [_projectedPositions EXCEPT ![i] = _positions'[i]]
    /\ UNCHANGED <<numberOfParticles, _velocities, _forces, _densities,
                   _pressures, _lastPositions, _densityVariations,
                   _pressureVariations>>

\* VSphSolver2D::project, iteration i
project(i) ==
    /\ _projectedPositions' = [_projectedPositions EXCEPT ![i] =
           Add(_positions[i],
               SumVec([k \in DOMAIN forEachNearbyPoint(i) |-> DisplacementOf(i, k)]))]
    /\ UNCHANGED <<numberOfParticles, _positions, _velocities, _forces, _densities,
                   _pressures, _lastPositions, _densityVariations,
                   _pressureVariations>>

\* VSphSolver2D::correct: (positions[i] - lastPositions[i]) / dt with
\* positions[i] = projectedPositions[i]
CorrectedVelocity(i) ==
    DivVec(Sub(_projectedPositions[i], _lastPositions[i]), _timeStepSizeInSeconds)

\* VSphSolver2D::correct, iteration i
correct(i) ==
    /\ _positions' = [_positions EXCEPT ![i] = _projectedPositions[i]]
    /\ _velocities' = [_velocities EXCEPT ![i] = CorrectedVelocity(i)]
    /\ UNCHANGED <<numberOfParticles, _forces, _densities, _pressures,
                   _lastPositions, _projectedPositions, _densityVariations,
                   _pressureVariations>>

\* GridNeighborhood2D::getDistances(index): the vector distances of the
\* neighbourhood, all MAX_NEIGHBORS elements of it
getDistances(index) ==
    [k \in 1 .. MAX_NEIGHBORS |-> _neighborhoods[index].distances[k - 1]]

---------------------------------------------------------------------------
(* GridNeighborhood2D::forEachNearbyPoint called on a grid that is built.   *)
(* The loop over the recorded neighbours is an omp parallel for unless TEST *)
(* is defined.  The callback is the one of the density pass: it adds to one *)
(* variable (here the distance it is handed), a read and a write of it.     *)
(* Called from inside a parallel loop, as the solver does, the loop is a    *)
(* nested region, which the OpenMP runtime runs with one thread unless      *)
(* nested parallelism is switched on: the stages above are written so.      *)

\* forEachNearbyPoint(origin, callback) is entered
ForEachBegin ==
    /\ bpc = "built"
    /\ callOrigin = NULL
    /\ \E o \in Particles :
          /\ callOrigin' = o
          /\ cbpc' = [k \in 0 .. _neighborhoods[o].numNeighbors - 1 |-> "todo"]
          /\ reg' = [k \in 0 .. _neighborhoods[o].numNeighbors - 1 |-> 0]
    /\ sum' = 0
    /\ calls' = <<>>
    /\ UNCHANGED <<gridVars, dataVars, ctlVars, ctorVars, csvVars>>

\* line 53, iteration k: callback(neighbors[k]->index, distances[k]) is
\* called and reads the variable it adds to ...
CallbackRead(k) ==
    /\ callOrigin # NULL
    /\ k \in DOMAIN cbpc
    /\ cbpc[k] = "todo"
    /\ MayRun(k, _neighborhoods[callOrigin].numNeighbors, GridThreads,
              {j \in DOMAIN cbpc : cbpc[j] = "done"})
    /\ calls' = Append(calls, forEachNearbyPoint(callOrigin)[k + 1])
    /\ reg' = [reg EXCEPT ![k] = sum]
    /\ cbpc' = [cbpc EXCEPT ![k] = "read"]
    /\ UNCHANGED <<callOrigin, sum>>
    /\ UNCHANGED <<gridVars, dataVars, ctlVars, ctorVars, csvVars>>

\* ... and stores the sum and returns
CallbackWrite(k) ==
    /\ callOrigin # NULL
    /\ k \in DOMAIN cbpc
    /\ cbpc[k] = "read"
    /\ sum' = reg[k] + forEachNearbyPoint(callOrigin)[k + 1].distance
    /\ cbpc' = [cbpc EXCEPT ![k] = "done"]
    /\ UNCHANGED <<callOrigin, reg, calls>>
    /\ UNCHANGED <<gridVars, dataVars, ctlVars, ctorVars, csvVars>>

\* the loop has ended: forEachNearbyPoint returns
ForEachReturn ==
    /\ callOrigin # NULL
    /\ \A k \in DOMAIN cbpc : cbpc[k] = "done"
    /\ callOrigin' = NULL
    /\ UNCHANGED <<cbpc, sum, reg, calls>>
    /\ UNCHANGED <<gridVars, dataVars, ctlVars, ctorVars, csvVars>>

NextEach ==
    \/ SetGridResolution
    \/ Build
    \/ \E i \in Particles : InsertRead(i)
    \/ \E i \in Particles : InsertWrite(i)
    \/ \E i \in Particles : Scan(i)
    \/ ForEachBegin
    \/ \E k \in DOMAIN cbpc : CallbackRead(k)
    \/ \E k \in DOMAIN cbpc : CallbackWrite(k)
    \/ ForEachReturn

\* the grid on its own, and calls of forEachNearbyPoint once it is built
SpecEach == InitGrid /\ [][NextEach]_vars

---------------------------------------------------------------------------
(* Bounds of the solver model *)

\* largest number of particles of a base solver, and calls of update() on it
MaxParticles == 3

MaxUpdates == 2

\* the same for a viscoelastic solver, whose update() is ten passes long
MaxViscoParticles == 2

MaxViscoUpdates == 1

ParticleBound == IF kind = "visco" THEN MaxViscoParticles ELSE MaxParticles

UpdateBound == IF kind = "visco" THEN MaxViscoUpdates ELSE MaxUpdates

\* positions handed to addParticle: within a kernel radius of each other
\* (for the viscoelastic solver in neighbouring cells of the grid, or in one
\* cell when the same position is added twice), and for the base solver one
\* far outside the view
PositionsOf(k) ==
    IF k = "visco" THEN {<<11, 8>>, <<12, 8>>}
    ELSE {<<300, 16>>, <<308, 16>>, <<-100, 50>>}

FileNames == {"", "out.csv"}

\* what a file left by an earlier run holds
OldContent == <<"o", "l", "d", "\n">>

\* decimal places of the coordinates: none, and some with a last place that
\* is not 0
NoPlaces == [k \in 1 .. 10 |-> 0]

SomePlaces == [k \in 1 .. 10 |-> IF k = 10 THEN 7 ELSE k]

---------------------------------------------------------------------------
(* The seeding of the constructors *)

\* rand() from its default seed, the count-th call; RAND_MAX is 65536 here
rand(count) == (count * 75 + 74) % 65537

\* static_cast<float>(rand()) / static_cast<float>(RAND_MAX), on the lattice
Jitter(count) == (2 * rand(count) + 65536) \div (2 * 65536)

\* SphSolver2D(int, string) lines 54-55: the passes of the inner loop,
\* x = _viewWidth / 4; x <= _viewWidth / 2; x += kernelRadius, and of the
\* outer one, y = kernelRadius; y < _viewHeight - 2 kernelRadius; y += kernelRadius
Columns == ((_viewWidth \div 2 - _viewWidth \div 4) \div _kernelRadius) + 1

Rows == (_viewHeight - 2 * _kernelRadius - 1) \div _kernelRadius

\* line 61: the position of the pass that finds count particles
SphSeedPosition(count) ==
    <<_viewWidth \div 4 + (count % Columns) * _kernelRadius + Jitter(count),
      _kernelRadius + (count \div Columns) * _kernelRadius + Jitter(count)>>

\* the smallest int, what the conversion of a NaN to int gives on x86
INT_MIN == -2147483647 - 1

\* VSphSolver2D(int, string) line 161: int num = sqrt(numberOfParticles_).
\* The square root of a negative count is NaN, and its conversion to int is
\* undefined: INT_MIN or 0 on the usual targets
Num(n) == IF n >= 0 THEN {ISqrt(n)} ELSE {INT_MIN, 0}

\* lines 159-173: start of the pass that finds count particles, for a row
\* of num; the step is 2 particleRadius + spacing
VSphSeedPosition(count, num) ==
    <<_viewWidth \div 4 + (count % num) * 3 * _particleRadius,
      _viewHeight \div 2 - (count \div num) * 3 * _particleRadius>>

---------------------------------------------------------------------------
(* update() *)

\* update() with the integration ahead of the forces
SphSolver2D_updateSwapped ==
    <<"computeDensityPressure", "integrate", "computeForces", "enforceBoundary">>

\* SphSolver2D::update: the calls before the write, in order
SphSolver2D_update ==
    <<"computeDensityPressure", "computeForces", "integrate", "enforceBoundary">>

\* VSphSolver2D::update: the calls of one pass of the substep loop, in order
VSphSolver2D_update ==
    <<"applyExternalForces", "integrate", "build", "computeDensityPressure",
      "project", "correct", "enforceBoundary">>

Stages == IF kind = "visco" THEN VSphSolver2D_update ELSE SphSolver2D_update

\* the position of the running stage in Stages
StageIndex == CHOOSE k \in DOMAIN Stages : Stages[k] = pc

Running == pc \in {Stages[k] : k \in DOMAIN Stages}

\* the team of the loop of a stage: the pragma of computeForces is commented out
Threads(stage) == IF stage = "computeForces" THEN 1 ELSE NumThreads

\* the body of iteration i of the loop of the running stage
Body(i) ==
    \/ kind = "base"  /\ pc = "computeDensityPressure" /\ SphComputeDensityPressure(i)
    \/ kind = "base"  /\ pc = "computeForces"          /\ computeForces(i)
    \/ kind = "base"  /\ pc = "integrate"              /\ SphIntegrate(i)
    \/ kind = "visco" /\ pc = "applyExternalForces"    /\ applyExternalForces(i)
    \/ kind = "visco" /\ pc = "integrate"              /\ VSphIntegrate(i)
    \/ kind = "visco" /\ pc = "computeDensityPressure" /\ VSphComputeDensityPressure(i)
    \/ kind = "visco" /\ pc = "project"                /\ project(i)
    \/ kind = "visco" /\ pc = "correct"                /\ correct(i)
    \/ pc = "enforceBoundary"                          /\ enforceBoundary(i)

\* the running stage has returned: build() has finished, or every iteration
\* of the loop has reached the barrier at its end
StageOver == IF pc = "build" THEN bpc = "built" ELSE done = Bodies

\* the substep loop with one pass too many
MoreSubstepsInclusive(i) == kind = "visco" /\ i <= _solverSteps

\* for (int i = 0; i < _solverSteps; i++); SphSolver2D::update has no loop
MoreSubsteps(i) == kind = "visco" /\ i < _solverSteps

\* CsvWriter::eraseFileContents: the file is opened with std::ios::trunc;
\* the bool it returns is not looked at by the constructors
eraseFileContents ==
    IF destination = "writable"
    THEN file' = <<>> /\ fault' = fault
    ELSE file' = file /\ fault' = fault \cup {"eraseFileContents failed"}

\* The constructor is called.  SphSolver2D(std::string) (the default
\* constructor too, and the base part of both VSphSolver2D constructors)
\* stores the name and erases the file; SphSolver2D(int, std::string) does
\* the same and makes the particle system data, VSphSolver2D(int,
\* std::string) makes the viscoelastic data with its grid; both go on to
\* seed.  VSphSolver2D() is SphSolver2D() and nothing more.
Construct ==
    /\ pc = "new"
    /\ IF _fileName # "" THEN eraseFileContents ELSE UNCHANGED <<file, fault>>
    /\ IF ctor = "count"
       THEN /\ _particleSystemData' =
                   IF kind = "visco" THEN "VSphParticleSystemData2D"
                   ELSE "SphParticleSystemData2D"
            /\ pc' = "seeding"
       ELSE /\ _particleSystemData' = _particleSystemData
            /\ pc' = "idle"
    /\ UNCHANGED <<gridCore, dataVars, kind, _fileName, step, done, updates,
                   added, log, ctor, requested, csvVars, eachVars>>

\* SphSolver2D(int, string) lines 54-65: one pass of the inner loop, which
\* returns when count == numberOfParticles and adds a particle otherwise,
\* or the end of the loops
SphSeed ==
    IF numberOfParticles # requested /\ numberOfParticles < Rows * Columns
    THEN /\ SphAddParticle(SphSeedPosition(numberOfParticles))
         /\ added' = Append(added, SphSeedPosition(numberOfParticles))
         /\ UNCHANGED <<_lastPositions, _projectedPositions, _densityVariations,
                        _pressureVariations, pc, gridCore>>
    ELSE /\ pc' = "idle"
         /\ UNCHANGED <<dataVars, added, gridCore>>

\* VSphSolver2D(int, string) lines 165-176: one pass of the inner loop, or
\* after the loops setGridResolution(_viewWidth, _viewHeight, kernelRadius)
\* and the entry of build(positions)
VSphSeed ==
    \E num \in Num(requested) :
        IF num > 0 /\ numberOfParticles < num * num
        THEN /\ VSphAddParticle(VSphSeedPosition(numberOfParticles, num))
             /\ added' = Append(added, VSphSeedPosition(numberOfParticles, num))
             /\ UNCHANGED <<pc, gridCore>>
        ELSE /\ setGridResolution(_viewWidth, _viewHeight, _kernelRadius)
             /\ points' = _positions
             /\ beyond' = UNREAD
             /\ ins' = [i \in DOMAIN _positions |-> "todo"]
             /\ scanned' = <<>>
             /\ bpc' = IF DOMAIN _positions = {} THEN "built" ELSE "insert"
             /\ pc' = "ctorBuild"
             /\ UNCHANGED <<TEST, _sortedNeighbors, _neighborhoods, dataVars, added>>

\* one step of the seeding of the constructor
Seed ==
    /\ pc = "seeding"
    /\ IF kind = "visco" THEN VSphSeed ELSE SphSeed
    /\ UNCHANGED <<fault, kind, _fileName, step, done, updates, file, log,
                   ctorVars, csvVars, eachVars>>

\* VSphSolver2D(int, string) lines 176-181: build() has returned, and the
\* constructor returns
Constructed ==
    /\ pc = "ctorBuild"
    /\ bpc = "built"
    /\ pc' = "idle"
    /\ UNCHANGED <<gridVars, dataVars, kind, _fileName, step, done, updates,
                   file, added, log, ctorVars, csvVars, eachVars>>

\* SphSolver2D::addParticle, between two updates.  On a solver whose
\* _particleSystemData is nullptr the call goes through the null pointer:
\* the process is stopped by the fault
AddParticle ==
    /\ pc = "idle"
    /\ numberOfParticles < ParticleBound
    /\ IF _particleSystemData = "nullptr"
       THEN /\ fault' = fault \cup {"null dereference"}
            /\ pc' = "crashed"
            /\ UNCHANGED <<dataVars, added>>
       ELSE /\ \E position \in PositionsOf(kind) :
                  /\ IF kind = "visco"
                     THEN VSphAddParticle(position)
                     ELSE /\ SphAddParticle(position)
                          /\ UNCHANGED <<_lastPositions, _projectedPositions,
                                         _densityVariations, _pressureVariations>>
                  /\ added' = Append(added, position)
            /\ UNCHANGED <<fault, pc>>
    /\ UNCHANGED <<gridCore, kind, _fileName, step, done, updates, file, log,
                   ctorVars, csvVars, eachVars>>

\* update() is called and enters its first stage
Update ==
    /\ pc = "idle"
    /\ _particleSystemData # "nullptr"
    /\ updates < UpdateBound
    /\ pc' = Stages[1]
    /\ step' = 0
    /\ done' = {}
    /\ log' = <<Stages[1]>>
    /\ UNCHANGED <<gridVars, dataVars, kind, _fileName, updates, file, added,
                   ctorVars, csvVars, eachVars>>

\* one iteration of the loop of the running stage
Iterate(i) ==
    /\ Running
    /\ pc # "build"
    /\ i \in Bodies \ done
    /\ MayRun(i, numberOfParticles, Threads(pc), done)
    /\ Body(i)
    /\ done' = done \cup {i}
    /\ UNCHANGED <<gridVars, kind, _fileName, pc, step, updates, file, added, log,
                   ctorVars, csvVars, eachVars>>

\* the running stage returns and update() calls the next one: the next of
\* the list, or the first of the next pass of the substep loop
Call ==
    /\ Running
    /\ StageOver
    /\ StageIndex < Len(Stages) \/ MoreSubsteps(step + 1)
    /\ LET next == IF StageIndex < Len(Stages) THEN Stages[StageIndex + 1]
                   ELSE Stages[1]
       IN  /\ pc' = next
           /\ log' = Append(log, next)
           /\ IF next = "build" THEN BuildBegin(_positions) ELSE UNCHANGED gridVars
    /\ step' = IF StageIndex < Len(Stages) THEN step ELSE step + 1
    /\ done' = {}
    /\ UNCHANGED <<dataVars, kind, _fileName, updates, file, added,
                   ctorVars, csvVars, eachVars>>

\* the last stage has returned, _fileName != "": writeToFile() appends the
\* frame, whose bool result it does not look at, and update() returns
Write ==
    /\ Running
    /\ StageOver
    /\ StageIndex = Len(Stages) /\ ~MoreSubsteps(step + 1)
    /\ _fileName # ""
    /\ SphSolver2D_writeToFile(PositionsAsDoubles, destination = "writable")
    /\ fault' = fault \cup (IF destination = "writable" THEN {}
                            ELSE {"writeToFile failed"})
    /\ log' = Append(log, "writeToFile")
    /\ pc' = "idle"
    /\ updates' = updates + 1
    /\ UNCHANGED <<gridCore, dataVars, kind, _fileName, step, done, added,
                   ctorVars, destination, places, eachVars>>

\* the last stage has returned, _fileName = "": update() returns
Return ==
    /\ Running
    /\ StageOver
    /\ StageIndex = Len(Stages) /\ ~MoreSubsteps(step + 1)
    /\ _fileName = ""
    /\ pc' = "idle"
    /\ updates' = updates + 1
    /\ UNCHANGED <<gridVars, dataVars, kind, _fileName, step, done, file, added, log,
                   ctorVars, csvVars, eachVars>>

\* the state before the constructor body runs, for a solver of one of the
\* kinds, made by one of the constructors with one of the counts, in one of
\* the environments.  The solvers are built without TEST: the loops of the
\* grid are parallel, and the sequential order is one of the orders a
\* parallel loop can take.  A file named is one an earlier run has left;
\* VSphSolver2D has no constructor that takes a file name only
InitSolver(kinds, ctors, counts, destinations, fracs) ==
    /\ kind \in kinds
    /\ ctor \in ctors
    /\ requested \in (IF ctor = "count" THEN counts ELSE {0})
    /\ _particleSystemData = "nullptr"
    /\ TEST = FALSE
    /\ GridNeighborhood2D
    /\ points = <<>>
    /\ bpc = "constructed"
    /\ ins = <<>>
    /\ scanned = <<>>
    /\ beyond = UNREAD
    /\ fault = {}
    /\ _fileName \in (IF kind = "visco" /\ ctor = "fileName" THEN {""} ELSE FileNames)
    /\ file = (IF _fileName = "" THEN <<>> ELSE OldContent)
    /\ destination \in destinations
    /\ places \in fracs
    /\ SphParticleSystemData2D
    /\ Idle("new")

\* SphSolver2D(0, fileName), particles added by addParticle, a destination
\* that can be written
Init == InitSolver({"base"}, {"count"}, {0}, {"writable"}, {NoPlaces})

Next ==
    \/ Construct
    \/ Seed
    \/ AddParticle
    \/ Update
    \/ \E i \in Bodies : Iterate(i)
    \/ Call
    \/ Write
    \/ Return

Spec == Init /\ [][Next]_vars

\* VSphSolver2D(0, fileName), with the steps of the build() its constructor
\* and its update() call
InitVisco == InitSolver({"visco"}, {"count"}, {0}, {"writable"}, {NoPlaces})

NextVisco ==
    \/ Construct
    \/ Seed
    \/ Constructed
    \/ AddParticle
    \/ Update
    \/ \E i \in Bodies : Iterate(i)
    \/ Call
    \/ Write
    \/ Return
    \/ \E i \in Particles : InsertRead(i)
    \/ \E i \in Particles : InsertWrite(i)
    \/ \E i \in Particles : Scan(i)

SpecVisco == InitVisco /\ [][NextVisco]_vars

\* either solver, constructed with a count of 0
InitSolvers == InitSolver({"base", "visco"}, {"count"}, {0}, {"writable"}, {NoPlaces})

SpecSolvers == InitSolvers /\ [][NextVisco]_vars

\* SphSolver2D(0, fileName) as in Spec, with coordinates that have decimal
\* places and destinations that cannot be written as well
InitCsv ==
    InitSolver({"base"}, {"count"}, {0}, {"writable", "unwritable"},
               {NoPlaces, SomePlaces})

SpecCsv == InitCsv /\ [][Next]_vars

\* The constructors on their own: both kinds of solver, made by each of
\* their constructors, with counts that are negative, zero, not a square,
\* and (for the base solver) above what the seeding loops place
BaseCounts == {-1, 0, 1, 2, 1027}

ViscoCounts == {-1, 0, 1, 2, 4, 5}

InitCtor ==
    \/ InitSolver({"base"}, {"count", "fileName"}, BaseCounts, {"writable"}, {NoPlaces})
    \/ InitSolver({"visco"}, {"count", "fileName"}, ViscoCounts, {"writable"}, {NoPlaces})

NextCtor ==
    \/ Construct
    \/ Seed
    \/ Constructed
    \/ AddParticle
    \/ \E i \in Particles : InsertRead(i)
    \/ \E i \in Particles : InsertWrite(i)
    \/ \E i \in Particles : Scan(i)

SpecCtor == InitCtor /\ [][NextCtor]_vars

\* VSphSolver2D(count, fileName) for a count of no particles, of as many as
\* the grid has room for, and of more
InitCapacity ==
    InitSolver({"visco"}, {"count"},
               {0, MAX_PARTICLES2D, (ISqrt(MAX_PARTICLES2D) + 1) * (ISqrt(MAX_PARTICLES2D) + 1)},
               {"writable"}, {NoPlaces})

SpecCapacity == InitCapacity /\ [][NextCtor]_vars

---------------------------------------------------------------------------
(* Properties of the solvers *)

IsPrefix(s, t) == Len(s) <= Len(t) /\ SubSeq(t, 1, Len(s)) = s

RECURSIVE Repeat(_, _)
Repeat(s, n) == IF n = 0 THEN <<>> ELSE s \o Repeat(s, n - 1)

\* the write that ends an update when a file name is set
WriteIfNamed == IF _fileName # "" THEN <<"writeToFile">> ELSE <<>>

\* C1: one update() of the base solver runs computeDensityPressure,
\* computeForces, integrate, enforceBoundary in this order, each once, then
\* writeToFile exactly when the file name is not empty; and no stage begins
\* before every iteration of the stage before it has finished.
C1_BaseUpdateOrder ==
    /\ [](kind = "base" =>
            LET whole == <<"computeDensityPressure", "computeForces", "integrate",
                           "enforceBoundary">> \o WriteIfNamed
            IN  /\ IsPrefix(log, whole)
                /\ Running => log # <<>> /\ log[Len(log)] = pc
                /\ (pc = "idle" /\ updates > 0) => log = whole)
    /\ [][(kind = "base" /\ Running /\ pc' # pc) => done = Bodies]_vars

\* an update of a base solver with as many particles as the model admits,
\* all of them moved by it, has returned after writing its frame
C1_Witness ==
    /\ kind = "base"
    /\ pc = "idle"
    /\ updates > 0
    /\ numberOfParticles = MaxParticles
    /\ \A i \in Bodies : _positions[i] # added[i + 1]
    /\ log # <<>> /\ log[Len(log)] = "writeToFile"

\* C2: one update() of the viscoelastic solver runs exactly ten passes, each
\* applyExternalForces, integrate, build (of the positions as integrated),
\* computeDensityPressure, project, correct, enforceBoundary in this order,
\* and writes at most once, after the last pass, exactly when the file name
\* is not empty.
C2_TenSubsteps ==
    kind = "visco" =>
        LET whole == Repeat(<<"applyExternalForces", "integrate", "build",
                              "computeDensityPressure", "project", "correct",
                              "enforceBoundary">>, 10) \o WriteIfNamed
        IN  /\ IsPrefix(log, whole)
            /\ Running => log # <<>> /\ log[Len(log)] = pc
            /\ pc = "build" => points = _positions
            /\ (pc = "idle" /\ updates > 0) => log = whole

\* an update of a viscoelastic solver has returned after writing its frame,
\* with particles that the projection has pushed apart as neighbours
C2_Witness ==
    /\ kind = "visco"
    /\ pc = "idle"
    /\ updates > 0
    /\ numberOfParticles = MaxViscoParticles
    /\ \E i \in Bodies : _positions[i][1] # added[i + 1][1]
    /\ log # <<>> /\ log[Len(log)] = "writeToFile"

\* C8 (as claimed): on base and viscoelastic data alike, each of the nine
\* per-particle arrays has as many elements as numberOfParticles says.
C8_NineArraysOneLength ==
    LET arrays == <<_positions, _velocities, _forces, _densities, _pressures,
                    _lastPositions, _projectedPositions, _densityVariations,
                    _pressureVariations>>
    IN  \A k \in 1 .. 9 : Size(arrays[k]) = numberOfParticles

\* C9 (as claimed): when enforceBoundary has returned, every particle lies
\* at a signed distance of at least -particleRadius of every boundary plane.
C9_InsideAfterBoundary ==
    (pc = "enforceBoundary" /\ done = Bodies) =>
        \A i \in Bodies : \A k \in DOMAIN _boundaries :
            SignedDistance(_positions[i], _boundaries[k]) >= -_particleRadius

\* C10: the particle count always equals the length of the position array
\* and the number of addParticle calls; before the first update the k-th
\* position added is at index k-1; no step removes a particle, no step of
\* update() changes the count, and a step that adds a particle leaves the
\* particles there at their indices.
C10_StableIndices ==
    /\ [](/\ numberOfParticles = Size(_positions)
          /\ numberOfParticles = Len(added)
          /\ updates = 0 /\ ~Running =>
                \A k \in 1 .. Len(added) : _positions[k - 1] = added[k])
    /\ [][/\ numberOfParticles' >= numberOfParticles
          /\ Running => numberOfParticles' = numberOfParticles
          /\ \A k \in Bodies :
                /\ k \in DOMAIN _positions'
                /\ numberOfParticles' # numberOfParticles =>
                      /\ _positions'[k] = _positions[k]
                      /\ _velocities'[k] = _velocities[k]]_vars

\* two particles added at different positions, in an update that has moved
\* the first away from where it was added
C10_Witness ==
    /\ numberOfParticles >= 2
    /\ added[1] # added[2]
    /\ updates > 0
    /\ _positions[0] # added[1]

---------------------------------------------------------------------------
(* Properties of the constructors *)

\* the sites of the seeding pattern that lie in the domain: for the base
\* solver the rows and columns of the loops, for the viscoelastic solver
\* the sites from the start to the right and down, three particle radii
\* apart, as far as the view reaches
Capacity ==
    IF kind = "visco"
    THEN (((_viewWidth - _viewWidth \div 4) \div (3 * _particleRadius)) + 1)
             * (((_viewHeight \div 2) \div (3 * _particleRadius)) + 1)
    ELSE Rows * Columns

\* the step in which a constructor that takes a count returns
CountConstructorReturns ==
    ctor = "count" /\ pc \in {"seeding", "ctorBuild"} /\ pc' = "idle"

\* C11 (as claimed): a solver constructed with a count n >= 0 holds n
\* particles when the seeding pattern has room for n in the domain, and as
\* many as the pattern has room for otherwise; never more than n.
C11_SeededCount ==
    [][(CountConstructorReturns /\ requested >= 0) =>
           numberOfParticles' = Min(requested, Capacity)]_vars

\* the constructor has returned
IsConstructed == pc \notin {"new", "seeding", "ctorBuild"}

\* C12 (as claimed): whichever constructor made it, a constructed solver
\* owns its particle system data (the viscoelastic solver the viscoelastic
\* data, which owns the grid), made at construction and never replaced, so
\* that no call on the solver goes through a null pointer.
C12_OwnsData ==
    /\ [](IsConstructed =>
            /\ _particleSystemData =
                   (IF kind = "visco" THEN "VSphParticleSystemData2D"
                    ELSE "SphParticleSystemData2D")
            /\ "null dereference" \notin fault)
    /\ [][IsConstructed => _particleSystemData' = _particleSystemData]_vars

---------------------------------------------------------------------------
(* Properties of the output file *)

\* the record of a frame: the text of every particle's position, in index
\* order, with a ';' between two of them
RECURSIVE Record(_)
Record(positions) ==
    IF positions = <<>> THEN <<>>
    ELSE IF Len(positions) = 1 THEN FieldOf(positions[1])
    ELSE FieldOf(positions[1]) \o <<";">> \o Record(Tail(positions))

\* C13 (as claimed): with a file name set, the file is empty once the
\* constructor has returned, and after k updates it holds exactly k lines,
\* the i-th the record of the positions after the i-th update (so no
\* header); the stream of the writer is empty whenever no update runs; and
\* with no file name set nothing is written.
C13_OneRecordPerUpdate ==
    /\ (_fileName # "" /\ IsConstructed /\ updates = 0) => file = <<>>
    /\ (_fileName # "" /\ IsConstructed) =>
           /\ Len(CSVRange(file)) = updates
           /\ Len(frames) = updates
           /\ \A i \in 1 .. Len(frames) :
                  i \in DOMAIN CSVRange(file) /\ CSVRange(file)[i] = Record(frames[i])
    /\ ~Running => ss = <<>>
    /\ _fileName = "" => file = <<>> /\ frames = <<>>

\* the frames that have particles, in the order they were written
FramesWithParticles == SelectSeq(frames, LAMBDA positions : positions # <<>>)

\* C14 (as claimed): every record written, the first and the later ones
\* alike, is the complete text of every particle's x and y in index order,
\* with a ';' between two particles and none before the first or after
\* the last.
C14_RecordsComplete ==
    (_fileName # "" /\ IsConstructed) =>
        \A i \in DOMAIN FramesWithParticles :
            /\ i \in DOMAIN CSVRange(file)
            /\ CSVRange(file)[i] = Record(FramesWithParticles[i])

\* C15 (as claimed): read back with CSVRange, a file written by k updates
\* gives k rows, each with as many cells as the solver had particles, and
\* get2DVector of cell i of row f is the position of particle i as it was
\* written in frame f, in all ten decimal places.
C15_RoundTrip ==
    (_fileName # "" /\ IsConstructed /\ destination = "writable") =>
        /\ Len(CSVRange(file)) = Len(frames)
        /\ \A f \in DOMAIN frames :
               f \in DOMAIN CSVRange(file) =>
                   LET row == readNextRow(CSVRange(file)[f])
                   IN  /\ Len(row) = Len(frames[f])
                       /\ \A i \in DOMAIN frames[f] :
                              i \in DOMAIN row => get2DVector(row[i]) = frames[f][i]

---------------------------------------------------------------------------
(* setGridResolution *)

\* C23: after setGridResolution(width, height, kernelRadius) the cell size
\* is the kernel radius and the grid has floor(width / cellSize) columns and
\* floor(height / cellSize) rows, for the width and height the caller
\* passed, also when they are not whole numbers.
C23_GridDimensions ==
    domain # <<>> =>
        /\ _width = domain[1] \div _cellSize
        /\ _height = domain[2] \div _cellSize
        /\ _numCells = _width * _height

----
(* The distance test of build() *)

\* the indices recorded for p, in the order recorded
RecordedIndices(p) == [k \in DOMAIN Recorded(p) |-> Recorded(p)[k].index]

\* the first MAX_NEIGHBORS elements of a sequence
BelowTheCap(s) == SubSeq(s, 1, Min(MAX_NEIGHBORS, Len(s)))

\* C24 (as claimed): build records a candidate of the scanned block of p,
\* while p is below the cap, exactly when the squared distance of the two
\* is greater than EPS and at most the square of the cell size.
C24_AboveEps ==
    \A p \in DOMAIN scanned :
        RecordedIndices(p)
          = BelowTheCap(SelectSeq(scanned[p], LAMBDA q :
                /\ Dist2(points[p], points[q]) > EPS
                /\ Dist2(points[p], points[q]) <= _cellSize * _cellSize))

\* C24 (amended): build records a candidate of the scanned block of p,
\* while p is below the cap, exactly when the squared distance of the two
\* is at least EPS and at most the square of the cell size; no particle is
\* recorded as its own neighbour, no pair closer than the square root of
\* EPS is recorded, and no recorded distance is zero.
C24_FromEps ==
    \A p \in DOMAIN scanned :
        /\ RecordedIndices(p)
             = BelowTheCap(SelectSeq(scanned[p], LAMBDA q :
                   /\ Dist2(points[p], points[q]) >= EPS
                   /\ Dist2(points[p], points[q]) <= _cellSize * _cellSize))
        /\ p \notin RecordedSet(p)
        /\ \A k \in DOMAIN Recorded(p) :
              /\ Dist2(points[p], points[Recorded(p)[k].index]) >= EPS
              /\ Recorded(p)[k].distance > 0
              /\ Recorded(p)[k].distance * Recorded(p)[k].distance >= EPS

\* a build has finished in which the scan of a particle has visited the
\* particle itself, a second particle at the same position and one at a
\* squared distance of exactly EPS, and has recorded the last one only
C24_Witness ==
    /\ bpc = "built"
    /\ \E p \in Particles : \E q, c \in Particles \ {p} :
          /\ Count(scanned[p], p) > 0
          /\ Count(scanned[p], c) > 0
          /\ points[c] = points[p]
          /\ Dist2(points[p], points[q]) = EPS
          /\ RecordedSet(p) = {q}

----
(* The neighbour relation after a sequential build *)

\* a build with TEST defined has returned, and no particle has as many
\* neighbours as the cap admits
SequentialBelowCap ==
    /\ TEST
    /\ bpc = "built"
    /\ \A p \in Particles : _neighborhoods[p].numNeighbors < MAX_NEIGHBORS

\* the cell coordinates of the point were clamped
Clamped(pt) == CellOf(pt) # TrueCell(pt)

\* C28: after a sequential build in which no particle reached the cap, q is
\* recorded for p exactly when p is recorded for q, and with the same
\* distance, whether or not the cell coordinates of p or q were clamped.
C28_Symmetric ==
    SequentialBelowCap =>
        \A p, q \in Particles :
            /\ q \in RecordedSet(p) <=> p \in RecordedSet(q)
            /\ \A k \in DOMAIN Recorded(p) : \A m \in DOMAIN Recorded(q) :
                  (Recorded(p)[k].index = q /\ Recorded(q)[m].index = p)
                      => Recorded(p)[k].distance = Recorded(q)[m].distance

\* a sequential build below the cap has returned in which a particle whose
\* cell coordinates were clamped and one whose were not are recorded for
\* each other
C28_Witness ==
    /\ SequentialBelowCap
    /\ \E p, q \in Particles :
          /\ Clamped(points[p])
          /\ ~Clamped(points[q])
          /\ q \in RecordedSet(p)
          /\ p \in RecordedSet(q)

\* C29: after a sequential build below the cap on a grid of at least 3 x 3
\* cells, the neighbours recorded for a particle, clamped or not, are the
\* other particles at a squared distance between EPS and the square of the
\* cell size, each recorded once.
C29_ClampingLosesNone ==
    (SequentialBelowCap /\ _width >= 3 /\ _height >= 3) =>
        \A p \in Particles :
            /\ RecordedSet(p) = {q \in Particles \ {p} : InRange(p, q)}
            /\ \A q \in RecordedSet(p) : Count(RecordedIndices(p), q) = 1

\* a sequential build below the cap has returned on a grid of at least
\* 3 x 3 cells with a particle outside the domain, a particle of the
\* outermost ring that has a neighbour within the kernel radius, and a
\* particle of its scanned block that is farther away
C29_Witness ==
    /\ SequentialBelowCap /\ _width >= 3 /\ _height >= 3
    /\ \E p \in Particles : points[p][1] < 0 \/ points[p][2] < 0
    /\ \E p, q, f \in Particles :
          /\ Clamped(points[p])
          /\ RecordedSet(p) = {q}
          /\ Count(scanned[p], f) > 0
          /\ ~InRange(p, f) /\ f # p

----
(* forEachNearbyPoint and getDistances *)

\* C21: forEachNearbyPoint(origin, callback) calls the callback with the
\* recorded neighbours of origin, index and distance, in the order build
\* recorded them, each once and no other; no two calls of the callback are
\* in progress at once; and when it returns, the variable the callback adds
\* to holds the contribution of every recorded neighbour exactly once.
C21_OneCallPerNeighbor ==
    /\ [](callOrigin # NULL =>
            /\ Len(calls) <= Len(forEachNearbyPoint(callOrigin))
            /\ calls = SubSeq(forEachNearbyPoint(callOrigin), 1, Len(calls))
            /\ Cardinality({k \in DOMAIN cbpc : cbpc[k] = "read"}) <= 1)
    /\ [][(callOrigin # NULL /\ callOrigin' = NULL) =>
            /\ calls = forEachNearbyPoint(callOrigin)
            /\ sum = SumSeq([k \in DOMAIN calls |-> calls[k].distance])]_vars

---------------------------------------------------------------------------
(* Determinism *)

\* what the arrays hold of particle k
Slot(k) ==
    <<_positions[k], _velocities[k], _forces[k], _densities[k], _pressures[k]>>

\* what iteration i of the loop of the running stage of SphSolver2D::update
\* is going to store (of computeForces: the terms of the sum it stores; of
\* enforceBoundary: what Bounce is applied to)
SphResult(i) ==
    IF pc = "computeDensityPressure" THEN <<DensityFrom(i, 0)>>
    ELSE IF pc = "computeForces" THEN <<ForceTerms(i)>>
    ELSE IF pc = "integrate" THEN <<Velocity(i), _positions[i]>>
    ELSE <<kind, _velocities[i], _positions[i]>>

\* C16: the result of an update() of the base solver does not depend on the
\* scheduling of its loops: an iteration stores into the elements of its
\* own particle only, and what an iteration that has not run yet is going
\* to store is not changed by the iterations that run before it.  The
\* positions after any number of updates are then those of the sequential
\* run from the same seeding.
C16_BaseDeterministic ==
    [][(kind = "base" /\ Running /\ pc' = pc /\ done' # done) =>
          /\ \A k \in Bodies \ (done' \ done) : Slot(k)' = Slot(k)
          /\ \A i \in Bodies \ done' : SphResult(i)' = SphResult(i)]_vars

\* a later iteration of a parallel loop has run before an earlier one, on
\* two particles within the kernel radius of each other
C16_Witness ==
    /\ kind = "base"
    /\ pc \in {"computeDensityPressure", "integrate"}
    /\ numberOfParticles >= 2
    /\ 0 \notin done
    /\ done # {}
    /\ \E i \in done : Dist2(_positions[0], _positions[i]) < _kernelRadiusSquared
    /\ updates > 0

\* what the arrays of the viscoelastic data hold of particle k
VSlot(k) ==
    <<Slot(k), _lastPositions[k], _projectedPositions[k], _densityVariations[k],
      _pressureVariations[k]>>

VSphResult(i) ==
    IF pc = "applyExternalForces"
    THEN <<Add(_velocities[i], Scale(_timeStepSizeInSeconds, G2D))>>
    ELSE IF pc = "integrate"
    THEN <<_positions[i], Add(_positions[i], Scale(_timeStepSizeInSeconds, _velocities[i]))>>
    ELSE IF pc = "computeDensityPressure"
    THEN <<forEachNearbyPoint(i)>>
    ELSE IF pc = "project"
    THEN <<_positions[i], [k \in DOMAIN forEachNearbyPoint(i) |-> DisplacementOf(i, k)]>>
    ELSE IF pc = "correct"
    THEN <<_projectedPositions[i], CorrectedVelocity(i)>>
    ELSE <<kind, _velocities[i], _positions[i]>>

\* what iteration i of the scan loop of build() is going to read: the lists
\* of its nine cells and the points
ScanReads(i) ==
    <<[k \in 1 .. 9 |-> HeadAt(ScanCells(i)[k], NULL)], _sortedNeighbors, points>>

\* C22: in every loop over the particles of either solver, and in the scan
\* loop of build(), an iteration stores into the elements of its own
\* particle only, and what an iteration that has not run yet is going to
\* read and to store is not changed by the iterations that run before it:
\* every interleaving ends as the sequential loop does.
C22_OwnSlotsOnly ==
    /\ [][(Running /\ pc # "build" /\ pc' = pc /\ done' # done) =>
              /\ \A k \in Bodies \ (done' \ done) :
                    IF kind = "visco" THEN VSlot(k)' = VSlot(k)
                    ELSE Slot(k)' = Slot(k)
              /\ \A i \in Bodies \ done' :
                    IF kind = "visco" THEN VSphResult(i)' = VSphResult(i)
                    ELSE SphResult(i)' = SphResult(i)]_vars
    /\ [][(bpc = "scan" /\ DOMAIN scanned' # DOMAIN scanned) =>
              /\ \A k \in Particles \ (DOMAIN scanned' \ DOMAIN scanned) :
                    _neighborhoods'[k] = _neighborhoods[k]
              /\ \A i \in Particles \ DOMAIN scanned' : ScanReads(i)' = ScanReads(i)]_vars

\* a later iteration of a loop of the viscoelastic solver has run before an
\* earlier one while each of the two particles is a recorded neighbour of
\* the other
C22_Witness ==
    /\ kind = "visco"
    /\ pc \in {"computeDensityPressure", "project"}
    /\ numberOfParticles >= 2
    /\ 0 \notin done
    /\ 1 \in done
    /\ 1 \in RecordedSet(0)
    /\ 0 \in RecordedSet(1)

\* C26: when a build has returned, getDistances(index) is the sequence of
\* the distances of the neighbours recorded for the particle by that build,
\* in the order forEachNearbyPoint visits them: one entry for each, and
\* none besides.
C26_DistancesOfLatestBuild ==
    bpc = "built" =>
        \A p \in Particles :
            getDistances(p)
              = [k \in DOMAIN forEachNearbyPoint(p) |-> forEachNearbyPoint(p)[k].distance]

---------------------------------------------------------------------------
(* The densities of the base solver *)

\* the particles whose density the pass of the running update() has stored
Computed == IF pc = "computeDensityPressure" THEN done ELSE Bodies

\* C27: in update() of the base solver, the density the pass has stored for
\* a particle is at least the particle's own contribution mass * W(h^2),
\* which is positive, so that the densities computeForces and integrate
\* divide by are not zero.
C27_DensityPositive ==
    (kind = "base" /\ Running) =>
        /\ _mass * Poly6(_kernelRadiusSquared) > 0
        /\ \A i \in Computed : _densities[i] >= _mass * Poly6(_kernelRadiusSquared)
        /\ pc \in {"computeForces", "integrate"} => \A i \in Bodies : _densities[i] # 0

\* computeForces is running on a particle without another within the kernel
\* radius, whose density is its own contribution, and on two particles
\* within the kernel radius of each other, whose densities are greater
C27_Witness ==
    /\ kind = "base"
    /\ pc = "computeForces"
    /\ \E i \in Bodies : _densities[i] = _mass * Poly6(_kernelRadiusSquared)
    /\ \E i, j \in Bodies :
          /\ i # j
          /\ Dist2(_positions[i], _positions[j]) < _kernelRadiusSquared
          /\ _densities[i] > _mass * Poly6(_kernelRadiusSquared)

---------------------------------------------------------------------------
(* The capacity of the neighbour grid *)

\* C30: a viscoelastic solver never has more than MAX_PARTICLES2D
\* particles, build() is never handed more points than that, and it never
\* indexes the per-particle arrays of the grid past their end.
C30_WithinCapacity ==
    kind = "visco" =>
        /\ numberOfParticles <= MAX_PARTICLES2D
        /\ NumPoints <= MAX_PARTICLES2D
        /\ "particle arrays indexed past the end" \notin fault

---------------------------------------------------------------------------
(* What update() reads of the densities, pressures and neighbour lists *)

\* the stages whose iterations read a density, a pressure or a neighbour
\* list: computeForces (densities and pressures of i and j) and integrate
\* (densities[i]) of the base solver, computeDensityPressure (the neighbour
\* list) and project (neighbour list, pressures) of the viscoelastic one
Readers ==
    IF kind = "visco" THEN {"computeDensityPressure", "project"}
    ELSE {"computeForces", "integrate"}

\* the stages whose iterations store a position: integrate, and correct
Movers == {"integrate", "correct"}

\* the place in log of the latest density pass of this update (0: none yet)
LastPass ==
    IF \E k \in DOMAIN log : log[k] = "computeDensityPressure"
    THEN CHOOSE k \in DOMAIN log :
             /\ log[k] = "computeDensityPressure"
             /\ \A m \in DOMAIN log : m > k => log[m] # "computeDensityPressure"
    ELSE 0

\* the pass a read relies on has run in this step or substep: the density
\* pass has returned (for the neighbour list: build() has, and the pass is
\* the stage that follows it)
PassIsOver ==
    IF kind = "visco"
    THEN /\ Len(log) >= 2
         /\ IF pc = "computeDensityPressure" THEN log[Len(log) - 1] = "build"
            ELSE LastPass > 1 /\ log[LastPass - 1] = "build" /\ LastPass < Len(log)
    ELSE LastPass > 0 /\ LastPass < Len(log)

\* the particles whose position has been stored since that pass began
MovedSincePass ==
    IF LastPass = 0 THEN Bodies
    ELSE IF \E k \in LastPass + 1 .. Len(log) - 1 : log[k] \in Movers THEN Bodies
    ELSE IF LastPass < Len(log) /\ pc \in Movers THEN done
    ELSE {}

\* C25 (as claimed): whenever an iteration of update() of either solver is
\* about to read a density, a pressure or a neighbour list, the density pass
\* (and the build) of the same step or substep has returned and no particle
\* has had its position stored since.
C25_NoPositionMoved ==
    (Running /\ pc \in Readers /\ done # Bodies) =>
        /\ PassIsOver
        /\ MovedSincePass = {}

\* C25 (amended): whenever an iteration of update() of either solver is
\* about to read a density, a pressure or a neighbour list, the density pass
\* (and the build) of the same step or substep has returned, no stage that
\* stores positions has returned since, and the position of the reading
\* particle itself has not been stored since; positions are stored by the
\* iterations of integrate and correct only, each its own.
C25_OwnPositionNotMoved ==
    /\ []((Running /\ pc \in Readers) =>
            \A i \in Bodies \ done :
                /\ PassIsOver
                /\ i \notin MovedSincePass)
    /\ [][(Running /\ _positions' # _positions) =>
              /\ pc \in Movers
              /\ done' # done
              /\ \A k \in Bodies \ (done' \ done) : _positions'[k] = _positions[k]]_vars

\* SphSolver2D::integrate is about to read the density of a particle after
\* another iteration of it has moved its particle
C25_Witness ==
    /\ kind = "base"
    /\ pc = "integrate"
    /\ done # {}
    /\ done # Bodies
    /\ updates = 0
    /\ \E k \in done : _positions[k] # added[k + 1]

---------------------------------------------------------------------------
(* Errors *)

\* C18: a count constructor called with a particle count that is not
\* positive reports a configuration error: it does not go on to seed, it
\* does not return a solver, and no particle is ever seeded for it.
C18_CountRejected ==
    (ctor = "count" /\ requested <= 0 /\ pc # "new") =>
        /\ "configuration error" \in fault
        /\ pc \notin {"seeding", "ctorBuild", "idle"}
        /\ numberOfParticles = 0

\* the failures of the output destination
FileFailures == {"eraseFileContents failed", "writeToFile failed"}

\* C19: when emptying the destination (in the constructor) or writing to it
\* (in update) fails, the constructor does not go on and update() does not
\* return as after a frame that was persisted: the caller gets the failure.
C19_FailureReported ==
    [][(fault' \cap FileFailures) # (fault \cap FileFailures) =>
          pc' \notin {"seeding", "idle"}]_vars

---------------------------------------------------------------------------
(* VSphParticleSystemData2D::addParticle *)

\* C20: addParticle of the viscoelastic data gives the new particle a
\* predicted (projected) position and a previous (last) position equal to
\* its position, zero near-density and near-pressure (density and pressure
\* variation), and zero velocity, force, density and pressure.
C20_ViscoAddParticle ==
    [][(kind = "visco" /\ numberOfParticles' = numberOfParticles + 1) =>
          LET new == numberOfParticles
          IN  /\ _projectedPositions'[new] = _positions'[new]
              /\ _lastPositions'[new] = _positions'[new]
              /\ _densityVariations'[new] = 0
              /\ _pressureVariations'[new] = 0
              /\ _velocities'[new] = <<0, 0>>
              /\ _forces'[new] = <<0, 0>>
              /\ _densities'[new] = 0
              /\ _pressures'[new] = 0]_vars

=============================================================================

